---- MODULE Spec2Model ----
(***************************************************************************)
(* Document indexing and retrieval pipeline of the notebook backend:       *)
(*   - TextChunker.chunk_text           (app/services/text_chunker.py)     *)
(*   - VectorStoreService               (app/services/vector_store.py)     *)
(*   - IndexingService.index_document   (app/services/indexing.py)         *)
(*   - the notebook / source-material handlers (app/routers/notebooks.py)  *)
(*                                                                         *)
(* Two specifications share the module.  SpecChunker runs chunk_text on    *)
(* every bounded input; Spec runs the handlers and the background          *)
(* indexing tasks against the relational store, the blob storage and the   *)
(* vector index.  Each specification keeps the other one's variables       *)
(* fixed.                                                                  *)
(***************************************************************************)
EXTENDS Integers, Sequences, FiniteSets, TLC

(***************************************************************************)
(* Bounds of the chunker inputs.                                           *)
(***************************************************************************)
MaxSentences == 3
MaxTok == 2
MaxChunkSize == 2
MaxOverlap == 2

(***************************************************************************)
(* Generic helpers.                                                        *)
(***************************************************************************)
RECURSIVE SumSeq(_)
SumSeq(s) ==
    IF s = <<>> THEN 0 ELSE Head(s) + SumSeq(Tail(s))

SeqsUpTo(S, n) ==
    UNION {[1..k -> S] : k \in 0..n}

Range(s) ==
    {s[i] : i \in DOMAIN s}

Last(s) ==
    s[Len(s)]

(***************************************************************************)
(* The tokenizer.  A word is the number of tokens its characters encode    *)
(* to; a sentence is its sequence of words.  The byte-pair encoding never  *)
(* merges across a blank, so a sentence encodes to the tokens of its       *)
(* words.  The blank that _split_long_sentence appends to a word is either *)
(* merged into the word's last token or a token of its own, depending on   *)
(* the encoding: space_tokens is 0 or 1.                                   *)
(***************************************************************************)
SpaceTokens == {0, 1}

\* Words of 1..MaxTok tokens; sentences of at least one word and at most
\* MaxTok tokens; texts of at most MaxSentences sentences.
Words == 1..MaxTok

SentenceInputs ==
    {s \in SeqsUpTo(Words, MaxTok) : s # <<>> /\ SumSeq(s) <= MaxTok}

TextInputs ==
    SeqsUpTo(SentenceInputs, MaxSentences)

VARIABLES
    chunk_size,      \* TextChunker.chunk_size
    chunk_overlap,   \* TextChunker.chunk_overlap
    space_tokens,    \* tokens the encoding spends on a trailing blank
    sentences,       \* result of _split_into_sentences(text)
    si,              \* index of the next sentence of the for loop
    chunks,          \* chunk_text: chunks
    current_chunk,   \* chunk_text: current_chunk (indices into sentences)
    current_tokens,  \* chunk_text: current_tokens
    cpc              \* "loop" inside the for loop, "done" after return

chunkerVars ==
    <<chunk_size, chunk_overlap, space_tokens, sentences, si, chunks,
      current_chunk, current_tokens, cpc>>

VARIABLES
    notebooks,    \* notebooks table: id -> [state, user_id]
    materials,    \* source_materials table: id -> row
    files,        \* LocalStorageBackend: path -> content
    index,        \* the Chroma collection: set of entries, one per id
    tasks,        \* index_document_background, one per upload
    loop_owner,   \* the coroutine running on the event loop, 0 if none
    patches       \* PATCH requests served so far

pipelineVars ==
    <<notebooks, materials, files, index, tasks, loop_owner, patches>>

VARIABLES
    calls         \* callers of the indexing service: per document, the
                  \* repeated index_document calls, whether
                  \* delete_document_index was called, and the entries the
                  \* first run left

serviceVars ==
    <<calls>>

VARIABLES
    chat,         \* chat_with_notebook.event_generator: position and locals
    events,       \* the events the generator has yielded, in order
    provider      \* what the completion provider and the vector store
                  \* were asked and what they answered in this turn

chatVars ==
    <<chat, events, provider>>

VARIABLES
    cards,        \* flashcards table: id -> row
    reviews,      \* card_reviews table, in insertion order
    now,          \* datetime.now(timezone.utc), in days
    requests      \* card requests served so far

cardVars ==
    <<cards, reviews, now, requests>>

VARIABLES
    generation    \* LLMService.generate_flashcards: position and locals

generationVars ==
    <<generation>>

VARIABLES
    stream        \* generate_cards.event_generator: position, locals and
                  \* the events it has yielded

streamVars ==
    <<stream>>

VARIABLES
    embedding     \* the last call of EmbeddingsService.generate_embeddings
                  \* or VectorStoreService.add_documents from outside the
                  \* pipeline: arguments, provider calls and result

embeddingVars ==
    <<embedding>>

VARIABLES
    twins         \* a second index_document run per document, scheduled
                  \* while the first has not returned

twinVars ==
    <<twins>>

vars ==
    <<chunkerVars, pipelineVars, serviceVars, chatVars, cardVars,
      generationVars, streamVars, embeddingVars, twinVars>>

otherThanChunker ==
    <<pipelineVars, serviceVars, chatVars, cardVars, generationVars,
      streamVars, embeddingVars, twinVars>>

otherThanPipeline ==
    <<chunkerVars, serviceVars, chatVars, cardVars, generationVars,
      streamVars, embeddingVars, twinVars>>

otherThanChat ==
    <<chunkerVars, serviceVars, cardVars, generationVars, streamVars,
      embeddingVars, twinVars>>

otherThanCards ==
    <<chunkerVars, pipelineVars, serviceVars, chatVars, generationVars,
      streamVars, embeddingVars, twinVars>>

otherThanGeneration ==
    <<chunkerVars, pipelineVars, serviceVars, chatVars, cardVars,
      streamVars, embeddingVars, twinVars>>

otherThanStream ==
    <<chunkerVars, pipelineVars, serviceVars, chatVars, cardVars,
      generationVars, embeddingVars, twinVars>>

otherThanEmbedding ==
    <<chunkerVars, serviceVars, chatVars, cardVars,
      generationVars, streamVars, twinVars>>

otherThanTwins ==
    <<chunkerVars, serviceVars, chatVars, cardVars, generationVars,
      streamVars, embeddingVars>>

\* len(self.encoding.encode(sentence)), sentence given by its index
SentenceTokens(i) ==
    SumSeq(sentences[i])

\* len(self.encoding.encode(word + " "))
WordTokens(w) ==
    w + space_tokens

RECURSIVE SumSentenceTokens(_)
SumSentenceTokens(idx) ==
    IF idx = <<>> THEN 0
    ELSE SentenceTokens(Head(idx)) + SumSentenceTokens(Tail(idx))

(***************************************************************************)
(* A chunk is the string " ".join(...) of a list of sentences or of a      *)
(* group of words of one sentence.  It is kept as the list it was joined   *)
(* from: the sentence indices, and for a word group the first and last     *)
(* word (lo..hi) of that sentence; via is the statement that appended it.  *)
(***************************************************************************)
GreedyChunk(via, idx) ==
    [via |-> via, sents |-> idx, lo |-> 0, hi |-> 0]

WordGroup(i, lo, hi) ==
    [via |-> "forced", sents |-> <<i>>, lo |-> lo, hi |-> hi]

\* _get_overlap_sentences: scan from the end, stop at the first sentence
\* that does not fit.
RECURSIVE OverlapScan(_, _, _, _)
OverlapScan(idx, k, overlap, tokens) ==
    IF k = 0 THEN overlap
    ELSE IF tokens + SentenceTokens(idx[k]) <= chunk_overlap
         THEN OverlapScan(idx, k - 1, <<idx[k]>> \o overlap,
                          tokens + SentenceTokens(idx[k]))
         ELSE overlap

OverlapFromStart(idx) ==
    IF idx # <<>> /\ SentenceTokens(idx[1]) <= chunk_overlap
    THEN <<idx[1]>> ELSE <<>>

get_overlap_sentences(idx) ==
    OverlapScan(idx, Len(idx), <<>>, 0)

\* _split_long_sentence: the for loop over the words, k the next word,
\* lo the first word of current, tokens its current_tokens.
RECURSIVE SplitLoop(_, _, _, _, _)
SplitLoop(i, k, lo, tokens, groups) ==
    LET words == sentences[i] IN
    IF k > Len(words)
    THEN IF lo < k THEN Append(groups, WordGroup(i, lo, k - 1)) ELSE groups
    ELSE LET word_tokens == WordTokens(words[k]) IN
         IF tokens + word_tokens > chunk_size
         THEN SplitLoop(i, k + 1, k, word_tokens,
                        IF lo < k THEN Append(groups, WordGroup(i, lo, k - 1))
                        ELSE groups)
         ELSE SplitLoop(i, k + 1, lo, tokens + word_tokens, groups)

split_long_sentence(i) ==
    SplitLoop(i, 1, 1, 0, <<>>)

\* lines 44-47: emit the pending chunk before a forced split
FlushPendingDropped(chs, cur) ==
    chs

\* the pending chunk appended without looking whether it holds a sentence
FlushPendingAlways(chs, cur) ==
    Append(chs, GreedyChunk("flush", cur))

FlushPending(chs, cur) ==
    IF cur # <<>> THEN Append(chs, GreedyChunk("flush", cur)) ELSE chs

ChunkerInit ==
    /\ chunk_size \in 1..MaxChunkSize
    /\ chunk_overlap \in 0..MaxOverlap
    /\ space_tokens \in SpaceTokens
    /\ sentences \in TextInputs
    /\ si = 1
    /\ chunks = <<>>
    /\ current_chunk = <<>>
    /\ current_tokens = 0
    /\ cpc = "loop"

\* lines 29-30: blank text
ReturnEmpty ==
    /\ cpc = "loop"
    /\ sentences = <<>>
    /\ cpc' = "done"
    /\ UNCHANGED <<chunk_size, chunk_overlap, space_tokens, sentences, si,
                   chunks, current_chunk, current_tokens>>
    /\ UNCHANGED otherThanChunker

\* lines 43-51: the sentence alone exceeds the chunk size
SplitLong ==
    /\ cpc = "loop"
    /\ si <= Len(sentences)
    /\ SentenceTokens(si) > chunk_size
    /\ chunks' = FlushPending(chunks, current_chunk) \o split_long_sentence(si)
    /\ current_chunk' = <<>>
    /\ current_tokens' = 0
    /\ si' = si + 1
    /\ UNCHANGED <<chunk_size, chunk_overlap, space_tokens, sentences, cpc>>
    /\ UNCHANGED otherThanChunker

\* lines 54-65: adding the sentence would exceed the chunk size
Overflow ==
    /\ cpc = "loop"
    /\ si <= Len(sentences)
    /\ SentenceTokens(si) <= chunk_size
    /\ current_tokens + SentenceTokens(si) > chunk_size
    /\ chunks' = Append(chunks, GreedyChunk("overflow", current_chunk))
    /\ current_chunk' = get_overlap_sentences(current_chunk) \o <<si>>
    /\ current_tokens' = SumSentenceTokens(current_chunk')
    /\ si' = si + 1
    /\ UNCHANGED <<chunk_size, chunk_overlap, space_tokens, sentences, cpc>>
    /\ UNCHANGED otherThanChunker

\* lines 66-68
AppendSentence ==
    /\ cpc = "loop"
    /\ si <= Len(sentences)
    /\ SentenceTokens(si) <= chunk_size
    /\ current_tokens + SentenceTokens(si) <= chunk_size
    /\ current_chunk' = Append(current_chunk, si)
    /\ current_tokens' = current_tokens + SentenceTokens(si)
    /\ si' = si + 1
    /\ UNCHANGED <<chunk_size, chunk_overlap, space_tokens, sentences, chunks,
                   cpc>>
    /\ UNCHANGED otherThanChunker

\* lines 70-74: the last chunk and the return
Finish ==
    /\ cpc = "loop"
    /\ sentences # <<>>
    /\ si > Len(sentences)
    /\ chunks' = IF current_chunk # <<>>
                 THEN Append(chunks, GreedyChunk("final", current_chunk))
                 ELSE chunks
    /\ cpc' = "done"
    /\ UNCHANGED <<chunk_size, chunk_overlap, space_tokens, sentences, si,
                   current_chunk, current_tokens>>
    /\ UNCHANGED otherThanChunker

ChunkerNext ==
    \/ ReturnEmpty
    \/ SplitLong
    \/ Overflow
    \/ AppendSentence
    \/ Finish

(***************************************************************************)
(* Properties of chunk_text.                                               *)
(***************************************************************************)
\* Token count of a chunk: the sum over its sentences, or for a word group
\* the sum _split_long_sentence accumulated for its words.
RECURSIVE SumWordTokens(_, _, _)
SumWordTokens(i, lo, hi) ==
    IF lo > hi THEN 0
    ELSE WordTokens(sentences[i][lo]) + SumWordTokens(i, lo + 1, hi)

ChunkTokens(c) ==
    IF c.via = "forced" THEN SumWordTokens(c.sents[1], c.lo, c.hi)
    ELSE SumSentenceTokens(c.sents)

IsPrefix(p, s) ==
    Len(p) <= Len(s) /\ SubSeq(s, 1, Len(p)) = p

SuffixOf(s, n) ==
    SubSeq(s, Len(s) - n + 1, Len(s))

\* The longest suffix of a sentence list whose tokens fit the overlap.
MaximalSuffix(idx) ==
    LET fits(n) == SumSentenceTokens(SuffixOf(idx, n)) <= chunk_overlap
        best == CHOOSE n \in 0..Len(idx) :
                    fits(n) /\ \A m \in 0..Len(idx) : fits(m) => m <= n
    IN  SuffixOf(idx, best)

\* Sentence i lies whole in a chunk joined from sentences.
InGreedyChunk(i) ==
    \E k \in DOMAIN chunks :
        chunks[k].via # "forced" /\ i \in Range(chunks[k].sents)

\* The word groups of sentence i, in the order of the chunk list, are
\* nonempty, consecutive and run from its first word to its last.
GroupsOf(i) ==
    {k \in DOMAIN chunks : chunks[k].via = "forced" /\ chunks[k].sents = <<i>>}

InWordGroups(i) ==
    /\ \E k \in GroupsOf(i) : chunks[k].lo = 1
    /\ \A k \in GroupsOf(i) :
        /\ chunks[k].lo <= chunks[k].hi
        /\ \A m \in GroupsOf(i) : k < m => chunks[k].hi < chunks[m].lo
        /\ \/ chunks[k].hi = Len(sentences[i])
           \/ \E m \in GroupsOf(i) : m > k /\ chunks[m].lo = chunks[k].hi + 1

Covered(i) ==
    InGreedyChunk(i) \/ InWordGroups(i)

Holders(i) ==
    {k \in DOMAIN chunks : i \in Range(chunks[k].sents)}

FirstOccurrence(i) ==
    CHOOSE k \in Holders(i) : \A m \in Holders(i) : k <= m

\* C1: every chunk emitted by the greedy sentence-accumulation path
\* (overflow, flush before a forced split, final chunk), a chunk started
\* with an overlap prefix included, has at most chunk_size tokens.
C1_GreedyChunksWithinSize ==
    \A k \in DOMAIN chunks :
        chunks[k].via # "forced" => ChunkTokens(chunks[k]) <= chunk_size

\* C2: no sentence is dropped: every sentence the loop has consumed is in
\* an emitted chunk or still pending in current_chunk, and after the return
\* every sentence of the text is covered by the chunks (whole, or as its
\* word groups in order), first occurrences in document order.
C2_EverySentenceCovered ==
    /\ \A i \in 1..(si - 1) : Covered(i) \/ i \in Range(current_chunk)
    /\ cpc = "done" =>
        /\ \A i \in DOMAIN sentences : Covered(i)
        /\ \A i, j \in DOMAIN sentences :
            i < j => FirstOccurrence(i) <= FirstOccurrence(j)

\* C2 witness: a finished run that flushed a pending chunk, split a long
\* sentence into several word groups and restarted a chunk with an overlap.
C2_Witness ==
    /\ cpc = "done"
    /\ \E k \in DOMAIN chunks : chunks[k].via = "flush"
    /\ \E k \in DOMAIN chunks : chunks[k].via = "forced" /\ chunks[k].lo > 1
    /\ \E k \in DOMAIN chunks :
        chunks[k].via = "overflow" /\ k + 1 \in DOMAIN chunks
        /\ Len(chunks[k + 1].sents) > 1

\* The sentence that triggered the overflow which emitted chunk c.
Trigger(c) ==
    Last(c.sents) + 1

\* C3 as stated: after a chunk emitted by the overflow branch, the next
\* chunk starts with a NONEMPTY suffix of its sentences, the maximal one
\* within chunk_overlap, followed by the triggering sentence.
C3_NonemptyOverlapPrefix ==
    \A k \in DOMAIN chunks :
        (chunks[k].via = "overflow" /\ k + 1 \in DOMAIN chunks) =>
            /\ MaximalSuffix(chunks[k].sents) # <<>>
            /\ IsPrefix(MaximalSuffix(chunks[k].sents) \o <<Trigger(chunks[k])>>,
                        chunks[k + 1].sents)

\* C3 amended: the next chunk starts with the maximal suffix within
\* chunk_overlap, which is empty when the last sentence alone exceeds
\* chunk_overlap, followed by the triggering sentence; and a chunk emitted
\* by the overflow branch always has a next chunk once the run returns.
C3_OverlapPrefix ==
    \A k \in DOMAIN chunks :
        chunks[k].via = "overflow" =>
            /\ cpc = "done" => k + 1 \in DOMAIN chunks
            /\ k + 1 \in DOMAIN chunks =>
                /\ chunks[k + 1].via # "forced"
                /\ IsPrefix(MaximalSuffix(chunks[k].sents)
                                \o <<Trigger(chunks[k])>>,
                            chunks[k + 1].sents)
                /\ MaximalSuffix(chunks[k].sents) # <<>>
                    <=> SentenceTokens(Last(chunks[k].sents)) <= chunk_overlap

\* C3 witness: an overflow chunk of several sentences whose overlap is a
\* nonempty proper suffix, and another run's case with an empty overlap is
\* C3_NonemptyOverlapPrefix's counterexample.
C3_Witness ==
    /\ cpc = "done"
    /\ \E k \in DOMAIN chunks :
        /\ chunks[k].via = "overflow"
        /\ MaximalSuffix(chunks[k].sents) # <<>>
        /\ Len(MaximalSuffix(chunks[k].sents)) < Len(chunks[k].sents)

\* C4: a sentence longer than chunk_size is emitted after the pending chunk,
\* as word groups of at most chunk_size tokens each whatever the size of a
\* word, and the chunk after the groups starts with the next sentence, with
\* no overlap prefix.
C4_ForcedSplit ==
    \A k \in DOMAIN chunks :
        chunks[k].via = "forced" =>
            /\ chunks[k].lo = 1 =>
                \A i \in 1..(chunks[k].sents[1] - 1) :
                    \E m \in 1..(k - 1) : i \in Range(chunks[m].sents)
            /\ ChunkTokens(chunks[k]) <= chunk_size
            /\ (k + 1 \in DOMAIN chunks /\ chunks[k + 1].via # "forced") =>
                chunks[k + 1].sents[1] = chunks[k].sents[1] + 1

\* " ".join of no sentence, or of no word
IsEmptyChunk(c) ==
    IF c.via = "forced" THEN c.lo > c.hi ELSE c.sents = <<>>

\* C27: chunk_text returns no chunk for a blank text, and whatever the
\* text, the chunk size and the overlap are, no chunk it has appended is
\* the empty string.
C27_NoEmptyChunk ==
    /\ \A k \in DOMAIN chunks : ~IsEmptyChunk(chunks[k])
    /\ (cpc = "done" /\ sentences = <<>>) => chunks = <<>>

\* C27 witness: the first sentence was too long for a chunk, so that the
\* forced split came with nothing pending, and a later sentence made a
\* chunk of its own.
C27_Witness ==
    /\ cpc = "done"
    /\ Len(chunks) >= 2
    /\ chunks[1].via = "forced"
    /\ \E k \in DOMAIN chunks : chunks[k].via # "forced"

(***************************************************************************)
(* The indexing pipeline: relational store, blob storage, vector index and *)
(* the background indexing tasks.                                          *)
(***************************************************************************)
MaxNotebooks == 2
MaxDocs == 2
MaxUsers == 1
MaxPatches == 1

\* generate_embeddings: batch_size
batch_size == 100

Notebooks == 1..MaxNotebooks
Docs == 1..MaxDocs
Users == 1..MaxUsers

\* content_url: None, or the storage path of the file saved by the upload
\* that created document f (uuid names: one file per upload).
NoUrl == 0
Urls == {NoUrl} \cup Docs

(***************************************************************************)
(* What an uploaded file holds, as far as the pipeline can tell: bytes     *)
(* that extract_text_from_bytes or chunk_text raises on (a broken PDF,     *)
(* bytes that are not UTF-8, a special-token string the tokenizer          *)
(* refuses), text that is blank after trimming, or text that chunk_text    *)
(* turns into n >= 1 chunks (one batch of the embedding gateway, or one    *)
(* more chunk than a batch).  The files the storage holds at one time      *)
(* weigh at most Capacity chunks together: several short files, or one     *)
(* text that needs a second batch.                                         *)
(***************************************************************************)
NoFile == [kind |-> "missing", n |-> 0]

Contents ==
    {[kind |-> "unreadable", n |-> 0], [kind |-> "blank", n |-> 0]}
    \cup {[kind |-> "text", n |-> n] : n \in {1, batch_size + 1}}

Capacity ==
    batch_size + 1

\* a file without chunks counts as one
RECURSIVE StoredChunks(_, _)
StoredChunks(fs, f) ==
    IF f = 0 THEN 0
    ELSE (IF fs[f].kind = "text" THEN fs[f].n
          ELSE IF fs[f].kind = "missing" THEN 0 ELSE 1)
         + StoredChunks(fs, f - 1)

Weight(content) ==
    IF content.kind = "text" THEN content.n ELSE 1

NoMaterial ==
    [state |-> "none", notebook_id |-> 0, content_url |-> NoUrl,
     processed |-> FALSE]

NoTask ==
    [pc |-> "none", user_id |-> 0, notebook_id |-> 0, content_url |-> NoUrl,
     chunks |-> 0, embedded |-> 0, result |-> "none"]

PipelineInit ==
    /\ notebooks = [n \in Notebooks |-> [state |-> "none", user_id |-> 0]]
    /\ materials = [d \in Docs |-> NoMaterial]
    /\ files = [f \in Docs |-> NoFile]
    /\ index = {}
    /\ tasks = [d \in Docs |-> NoTask]
    /\ loop_owner = 0
    /\ patches = 0

(***************************************************************************)
(* VectorStoreService                                                      *)
(***************************************************************************)
\* Entries of the collection selected by a where clause on one metadata key
EntriesOfSource(idx, s) ==
    {e \in idx : e.metadata.source_material_id = s}

EntriesOfNotebook(idx, n) ==
    {e \in idx : e.metadata.notebook_id = n}

\* The texts whose embeddings reach collection.add: all of them, the
\* batches concatenated in order.
FirstBatchOnly(n) ==
    0..((IF n < batch_size THEN n ELSE batch_size) - 1)

EmbeddedTexts(n) ==
    0..(n - 1)

\* collection.add numbering the new entries after those the source holds
AddAfterHeld(idx, n, source_material_id, notebook_id, user_id, file, additional_metadata) ==
    LET held == Cardinality(EntriesOfSource(idx, source_material_id)) IN
    idx \cup {[id |-> <<source_material_id, held + i>>,
               document |-> <<file, i>>,
               metadata |-> additional_metadata @@
                   [source_material_id |-> source_material_id,
                    notebook_id |-> notebook_id,
                    user_id |-> user_id,
                    chunk_index |-> i,
                    total_chunks |-> n]] : i \in 0..(n - 1)}

\* add_documents, after generate_embeddings returned: ids, metadatas
\* (metadata.update(additional_metadata): the extra keys win) and
\* collection.add.  An entry is (id, document, metadata); the document
\* stands for its embedding too.  An id the collection already holds is
\* left as it is.
add_documents(idx, n, source_material_id, notebook_id, user_id, file, additional_metadata) ==
    LET new == {[id |-> <<source_material_id, i>>,
                 document |-> <<file, i>>,
                 metadata |-> additional_metadata @@
                     [source_material_id |-> source_material_id,
                      notebook_id |-> notebook_id,
                      user_id |-> user_id,
                      chunk_index |-> i,
                      total_chunks |-> n]] : i \in EmbeddedTexts(n)}
        held == {e.id : e \in idx}
    IN  idx \cup {e \in new : e.id \notin held}

\* delete_by_source_material: the collection afterwards and the count
DeleteSourceKeepsLast(idx, source_material_id) ==
    LET hit == EntriesOfSource(idx, source_material_id)
        kept == IF hit = {} THEN {}
                ELSE {CHOOSE e \in hit :
                        \A o \in hit : o.metadata.chunk_index <= e.metadata.chunk_index}
    IN  [index |-> (idx \ hit) \cup kept, count |-> Cardinality(hit)]

delete_by_source_material(idx, source_material_id) ==
    LET hit == EntriesOfSource(idx, source_material_id)
    IN  [index |-> idx \ hit, count |-> Cardinality(hit)]

\* delete_by_notebook (no caller in the repository)
delete_by_notebook(idx, notebook_id) ==
    LET hit == EntriesOfNotebook(idx, notebook_id)
    IN  [index |-> idx \ hit, count |-> Cardinality(hit)]

(***************************************************************************)
(* Similarity query.  The embedding provider is external: a query text q   *)
(* is nearest to the chunks of one file, and within a file to its first    *)
(* chunks; distances to distinct chunk texts are distinct.                 *)
(***************************************************************************)
MaxQueryTexts == 2
MaxResults == 2

QueryTexts == 1..MaxQueryTexts
NoNotebook == 0

Distance(q, e) ==
    ((e.document[1] + q) % (MaxDocs + 1)) * (batch_size + 2) + e.document[2]

\* collection.query: the n_results nearest entries among those the where
\* clause keeps, by ascending distance
RECURSIVE Nearest(_, _, _)
Nearest(q, cand, k) ==
    IF k = 0 \/ cand = {} THEN <<>>
    ELSE LET e == CHOOSE x \in cand :
                    \A y \in cand : Distance(q, x) <= Distance(q, y)
         IN  <<e>> \o Nearest(q, cand \ {e}, k - 1)

QueryUnfiltered(idx, q, notebook_id, user_id, n_results) ==
    Nearest(q, idx, n_results)

\* user_id: Optional[str] = None
NoUser == 0

\* the users a query may name: none, an owner of notebooks, or a user who
\* owns nothing
Callers == 0..(MaxUsers + 1)

\* query with the user filter of lines 93-94 in force
QueryByUser(idx, q, notebook_id, user_id, n_results) ==
    LET of_notebook == IF notebook_id # NoNotebook
                       THEN EntriesOfNotebook(idx, notebook_id) ELSE idx
        where == IF user_id # NoUser
                 THEN {e \in of_notebook : e.metadata.user_id = user_id}
                 ELSE of_notebook
    IN  Nearest(q, where, n_results)

\* VectorStoreService.query
query(idx, q, notebook_id, user_id, n_results) ==
    LET where == IF notebook_id # NoNotebook
                 THEN EntriesOfNotebook(idx, notebook_id) ELSE idx
    IN  Nearest(q, where, n_results)

(***************************************************************************)
(* Handlers of app/routers/notebooks.py.  The def handlers run in the      *)
(* thread pool; the async def handlers and the background tasks run on the *)
(* event loop, one at a time between two awaits.                           *)
(***************************************************************************)
LoopFree ==
    loop_owner = 0

\* create_notebook
CreateNotebook(u) ==
    /\ \E n \in Notebooks :
        /\ notebooks[n].state = "none"
        /\ \A m \in Notebooks : m < n => notebooks[m].state # "none"
        /\ notebooks' = [notebooks EXCEPT ![n] =
                            [state |-> "live", user_id |-> u]]
    /\ UNCHANGED <<materials, files, index, tasks, loop_owner, patches>>
    /\ UNCHANGED otherThanPipeline

\* delete_notebook: db.delete(notebook) cascades to its source_materials
DeleteNotebook(n, u) ==
    /\ notebooks[n].state = "live"
    /\ notebooks[n].user_id = u
    /\ notebooks' = [notebooks EXCEPT ![n].state = "deleted"]
    /\ materials' = [d \in Docs |->
                        IF materials[d].state = "live"
                           /\ materials[d].notebook_id = n
                        THEN [materials[d] EXCEPT !.state = "deleted"]
                        ELSE materials[d]]
    /\ UNCHANGED <<files, index, tasks, loop_owner, patches>>
    /\ UNCHANGED otherThanPipeline

\* upload_source_material: save the file, insert the row, schedule the task
UploadSourceMaterial(n, u, content) ==
    /\ LoopFree
    /\ notebooks[n].state = "live"
    /\ notebooks[n].user_id = u
    /\ StoredChunks(files, MaxDocs) + Weight(content) <= Capacity
    /\ \E d \in Docs :
        /\ materials[d].state = "none"
        /\ \A m \in Docs : m < d => materials[m].state # "none"
        /\ files' = [files EXCEPT ![d] = content]
        /\ materials' = [materials EXCEPT ![d] =
                            [state |-> "live", notebook_id |-> n,
                             content_url |-> d, processed |-> FALSE]]
        /\ tasks' = [tasks EXCEPT ![d] =
                        [NoTask EXCEPT !.pc = "scheduled", !.user_id = u]]
    /\ UNCHANGED <<notebooks, index, loop_owner, patches>>
    /\ UNCHANGED otherThanPipeline

\* update_source_material (PATCH): content_url and processed are writable.
\* At most MaxPatches requests are served in a run of the model.
UpdateSourceMaterial(d) ==
    /\ patches < MaxPatches
    /\ patches' = patches + 1
    /\ materials[d].state = "live"
    /\ \/ \E url \in Urls :
            /\ url # materials[d].content_url
            /\ materials' = [materials EXCEPT ![d].content_url = url]
       \/ \E b \in BOOLEAN :
            /\ b # materials[d].processed
            /\ materials' = [materials EXCEPT ![d].processed = b]
    /\ UNCHANGED <<notebooks, files, index, tasks, loop_owner>>
    /\ UNCHANGED otherThanPipeline

\* storage.delete(path)
StorageDelete(fs, path) ==
    IF path # NoUrl THEN [fs EXCEPT ![path] = NoFile] ELSE fs

\* delete_source_material: no await suspends it (storage.delete does not
\* yield), so it is one step of the event loop
DeleteSourceMaterial(d) ==
    /\ LoopFree
    /\ materials[d].state = "live"
    /\ index' = delete_by_source_material(index, d).index
    /\ files' = StorageDelete(files, materials[d].content_url)
    /\ materials' = [materials EXCEPT ![d].state = "deleted"]
    /\ UNCHANGED <<notebooks, tasks, loop_owner, patches>>
    /\ UNCHANGED otherThanPipeline

(***************************************************************************)
(* index_document_background / IndexingService.index_document.  The run    *)
(* suspends once, in await storage.get; what follows runs on the event     *)
(* loop without an await (the provider calls block it), so no other        *)
(* coroutine runs until the return, while the thread-pool handlers do.     *)
(***************************************************************************)
\* the locals die with the return; the result and the number of texts
\* embedded stay for the log
Finished(task, result) ==
    [NoTask EXCEPT !.pc = "done", !.result = result,
                   !.embedded = task.embedded]

\* except Exception: ... return False
OnExceptionRaise(task) ==
    Finished(task, "raised")

OnException(task) ==
    Finished(task, "false")

\* the return without material.processed = True before the commit
CommitSkipped(d) ==
    materials

\* db.commit() of material.processed = True: the UPDATE of the row, which
\* raises when the row is gone
CommitProcessed(d) ==
    IF materials[d].state = "live"
    THEN [materials EXCEPT ![d].processed = TRUE]
    ELSE materials

AfterCommit(d, task) ==
    IF materials[d].state = "live"
    THEN Finished(task, "true") ELSE OnException(task)

\* lines 36-51: load the row, return False without it or without a
\* content_url, else call storage.get (the await)
TaskBegin(d) ==
    /\ LoopFree
    /\ tasks[d].pc = "scheduled"
    /\ \/ /\ materials[d].state # "live"
          /\ tasks' = [tasks EXCEPT ![d] = Finished(@, "false")]
       \/ /\ materials[d].state = "live"
          /\ materials[d].content_url = NoUrl
          /\ tasks' = [tasks EXCEPT ![d] = Finished(@, "false")]
       \/ /\ materials[d].state = "live"
          /\ materials[d].content_url # NoUrl
          /\ tasks' = [tasks EXCEPT ![d] =
                          [@ EXCEPT !.pc = "get",
                                    !.notebook_id = materials[d].notebook_id,
                                    !.content_url = materials[d].content_url]]
    /\ UNCHANGED <<notebooks, materials, files, index, loop_owner, patches>>
    /\ UNCHANGED otherThanPipeline

\* storage.get: aiofiles reads the file in a worker thread; the bytes read
\* are kept as what they will extract and chunk to
TaskGet(d) ==
    /\ tasks[d].pc = "get"
    /\ tasks' = [tasks EXCEPT ![d] =
                    [@ EXCEPT !.pc = files[tasks[d].content_url].kind,
                              !.chunks = files[tasks[d].content_url].n]]
    /\ UNCHANGED <<notebooks, materials, files, index, loop_owner, patches>>
    /\ UNCHANGED otherThanPipeline

\* generate_embeddings: the texts embedded when the provider call of batch
\* number failed (1, 2, ...) raises
EmbeddedBefore(failed, n) ==
    (failed - 1) * batch_size

NumBatches(n) ==
    (n + batch_size - 1) \div batch_size

\* the run after collection.add returned (ok) or raised
AfterAddIgnoringFailure(task, ok) ==
    [task EXCEPT !.pc = "mark", !.embedded = task.chunks]

AfterAdd(task, ok) ==
    IF ok THEN [task EXCEPT !.pc = "mark", !.embedded = task.chunks]
    ELSE OnException([task EXCEPT !.embedded = task.chunks])

\* lines 51-90: the coroutine resumes with the bytes or the exception of
\* storage.get; extract_text_from_bytes; the blank-text return; chunk_text;
\* add_documents: generate_embeddings batch by batch, then collection.add
TaskIndex(d) ==
    /\ LoopFree
    /\ \/ /\ tasks[d].pc \in {"missing", "unreadable"}
          /\ tasks' = [tasks EXCEPT ![d] = OnException(@)]
          /\ UNCHANGED <<materials, index, loop_owner>>
       \/ /\ tasks[d].pc = "blank"
          /\ materials' = CommitProcessed(d)
          /\ tasks' = [tasks EXCEPT ![d] = AfterCommit(d, @)]
          /\ UNCHANGED <<index, loop_owner>>
       \/ /\ tasks[d].pc = "text"
          /\ \E failed \in 1..NumBatches(tasks[d].chunks) :
                tasks' = [tasks EXCEPT ![d] =
                    OnException([@ EXCEPT !.embedded =
                        EmbeddedBefore(failed, tasks[d].chunks)])]
          /\ UNCHANGED <<materials, index, loop_owner>>
       \/ /\ tasks[d].pc = "text"
          /\ tasks' = [tasks EXCEPT ![d] = AfterAdd(@, FALSE)]
          /\ loop_owner' = IF tasks'[d].pc = "done" THEN 0 ELSE d
          /\ UNCHANGED <<materials, index>>
       \/ /\ tasks[d].pc = "text"
          /\ index' = add_documents(index, tasks[d].chunks, d,
                                    tasks[d].notebook_id, tasks[d].user_id,
                                    tasks[d].content_url,
                                    [title |-> d, source_type |-> "upload"])
          /\ tasks' = [tasks EXCEPT ![d] = AfterAdd(@, TRUE)]
          /\ loop_owner' = d
          /\ UNCHANGED materials
    /\ UNCHANGED <<notebooks, files, patches>>
    /\ UNCHANGED otherThanPipeline

\* lines 92-96: material.processed = True, db.commit(), return True
TaskMark(d) ==
    /\ loop_owner = d
    /\ tasks[d].pc = "mark"
    /\ materials' = CommitProcessed(d)
    /\ tasks' = [tasks EXCEPT ![d] = AfterCommit(d, @)]
    /\ loop_owner' = 0
    /\ UNCHANGED <<notebooks, files, index, patches>>
    /\ UNCHANGED otherThanPipeline

PipelineNext ==
    \/ \E u \in Users : CreateNotebook(u)
    \/ \E n \in Notebooks, u \in Users : DeleteNotebook(n, u)
    \/ \E n \in Notebooks, u \in Users, c \in Contents :
            UploadSourceMaterial(n, u, c)
    \/ \E d \in Docs : UpdateSourceMaterial(d)
    \/ \E d \in Docs : DeleteSourceMaterial(d)
    \/ \E d \in Docs : TaskBegin(d)
    \/ \E d \in Docs : TaskGet(d)
    \/ \E d \in Docs : TaskIndex(d)
    \/ \E d \in Docs : TaskMark(d)

(***************************************************************************)
(* Properties of the indexing pipeline.                                    *)
(***************************************************************************)
Ids(idx) ==
    {e.id : e \in idx}

\* C5: a similarity query with a notebook id returns only entries whose
\* stored notebook_id is that id, whatever the query text, the user id and
\* the number of results asked for, in every state the index can reach.
C5_QueryOnlyOwnNotebook ==
    \A n \in Notebooks, q \in QueryTexts, u \in Users, k \in 1..MaxResults :
        LET r == query(index, q, n, u, k) IN
        \A i \in DOMAIN r : r[i].metadata.notebook_id = n

\* C5 witness: a query on a notebook returns an entry although the index
\* holds an entry of another notebook that is nearer to the query.
C5_Witness ==
    \E n \in Notebooks, q \in QueryTexts, u \in Users, k \in 1..MaxResults :
        LET r == query(index, q, n, u, k) IN
        /\ r # <<>>
        /\ \E e \in index :
            /\ e.metadata.notebook_id # n
            /\ Distance(q, e) < Distance(q, r[1])

\* A step of the indexing run of document d
TaskStep(d) ==
    tasks[d].pc # "none" /\ tasks'[d] # tasks[d]

\* C6: a run of index_document on a text with at least one chunk writes
\* processed = true only after add_documents returned for the whole chunk
\* list: in the step that writes it, the run is past collection.add, all
\* its texts were embedded and every chunk id of the document is stored.
C6_ProcessedAfterUpsert ==
    [][\A d \in Docs :
        (/\ TaskStep(d)
         /\ tasks[d].chunks >= 1
         /\ ~materials[d].processed
         /\ materials'[d].processed) =>
            /\ tasks[d].pc = "mark"
            /\ tasks[d].embedded = tasks[d].chunks
            /\ \A i \in 0..(tasks[d].chunks - 1) : <<d, i>> \in Ids(index)
      ]_vars

\* C6 witness: a run returned True for a text with chunks, and its
\* document is processed with its chunks stored.
C6_Witness ==
    \E d \in Docs :
        /\ tasks[d].result = "true"
        /\ tasks[d].embedded >= 1
        /\ materials[d].state = "live"
        /\ materials[d].processed
        /\ EntriesOfSource(index, d) # {}

\* C7: a run that does not return True returns False, never raises, and
\* the step in which it fails (no row, no content_url, storage.get,
\* extraction, chunking, embedding, collection.add or the commit raising)
\* changes neither the rows, processed included, nor the index, nor the
\* files.
C7_FailureReturnsFalse ==
    [][\A d \in Docs :
        (/\ TaskStep(d)
         /\ tasks'[d].pc = "done"
         /\ tasks'[d].result # "true") =>
            /\ tasks'[d].result = "false"
            /\ materials' = materials
            /\ index' = index
            /\ files' = files
      ]_vars

\* C7 witness: one run failed on bytes it could not read and another on a
\* readable text (embedding or collection.add raised); both documents are
\* still there and not processed.
C7_Witness ==
    \E d, o \in Docs :
        /\ tasks[d].result = "false" /\ tasks[o].result = "false"
        /\ materials[d].state = "live" /\ materials[o].state = "live"
        /\ materials[d].content_url = d /\ materials[o].content_url = o
        /\ files[d].kind = "unreadable" /\ files[o].kind = "text"
        /\ ~materials[d].processed /\ ~materials[o].processed

\* C8: the index holds for a source document either nothing or a full
\* chunk list: as many entries as their total_chunks says, with the chunk
\* indices 0 .. total_chunks - 1.
C8_AllOrNothing ==
    \A d \in Docs :
        LET held == EntriesOfSource(index, d) IN
        held # {} =>
            \A e \in held :
                /\ e.metadata.total_chunks = Cardinality(held)
                /\ {o.metadata.chunk_index : o \in held}
                        = 0..(e.metadata.total_chunks - 1)

\* C8 witness: the second batch of the embedding gateway raised after the
\* first batch of 100 texts succeeded, and the index holds no chunk of the
\* document.
C8_Witness ==
    \E d \in Docs :
        /\ tasks[d].result = "false"
        /\ tasks[d].embedded = batch_size
        /\ files[d].n > batch_size
        /\ EntriesOfSource(index, d) = {}

\* The step of delete_source_material on document d (delete_notebook, the
\* other step that removes rows, changes the notebooks)
DeleteStep(d) ==
    /\ materials[d].state = "live"
    /\ materials'[d].state = "deleted"
    /\ notebooks' = notebooks

\* C9: delete_by_source_material(s) returns the number of entries whose
\* source_material_id is s, leaves none of them, so that no query returns
\* one, and leaves every other entry as it was; with no such entry it
\* returns 0 and changes nothing.
C9_DeleteBySource ==
    [][\A d \in Docs :
        DeleteStep(d) =>
            LET r == delete_by_source_material(index, d) IN
            /\ index' = r.index
            /\ r.count = Cardinality(EntriesOfSource(index, d))
            /\ r.count = 0 => index' = index
            /\ EntriesOfSource(index', d) = {}
            /\ index' \subseteq index
            /\ \A e \in index :
                e.metadata.source_material_id # d => e \in index'
            /\ \A n \in Notebooks \cup {NoNotebook}, q \in QueryTexts,
                  k \in 1..MaxResults :
                LET res == query(index', q, n, 1, k) IN
                \A i \in DOMAIN res : res[i].metadata.source_material_id # d
      ]_vars

\* C9 witness: a document that was indexed with at least one chunk has
\* been deleted by delete_source_material (its notebook is still there),
\* none of its entries is left and entries of another document are.
C9_Witness ==
    \E d \in Docs :
        /\ materials[d].state = "deleted"
        /\ notebooks[materials[d].notebook_id].state = "live"
        /\ tasks[d].result = "true"
        /\ tasks[d].embedded >= 1
        /\ EntriesOfSource(index, d) = {}
        /\ index # {}

C26_UserIdIgnored ==
    \A n \in Notebooks \cup {NoNotebook}, q \in QueryTexts,
       k \in 1..MaxResults, u1 \in Callers, u2 \in Callers :
        query(index, q, n, u1, k) = query(index, q, n, u2, k)

\* C26 witness: a query in the name of a user who has stored nothing
\* returns entries of another user's notebook.
C26_Witness ==
    \E n \in Notebooks, q \in QueryTexts, k \in 1..MaxResults :
        /\ query(index, q, n, MaxUsers + 1, k) # <<>>
        /\ \A e \in index : e.metadata.user_id # MaxUsers + 1
        /\ query(index, q, n, NoUser, k) = query(index, q, n, MaxUsers + 1, k)

\* C29: once delete_source_material(d) and the indexing run the upload
\* scheduled for d have both finished, in whatever order their steps were
\* taken, the index holds no entry of d.
C29_NoOrphanChunks ==
    \A d \in Docs :
        (/\ materials[d].state = "deleted"
         /\ notebooks[materials[d].notebook_id].state = "live"
         /\ tasks[d].pc = "done") =>
            EntriesOfSource(index, d) = {}

\* C10: once delete_notebook has completed for a notebook, the index holds
\* no entry whose notebook_id is that notebook.
C10_NoEntriesOfDeletedNotebook ==
    \A n \in Notebooks :
        notebooks[n].state = "deleted" => EntriesOfNotebook(index, n) = {}

(***************************************************************************)
(* The indexing service called again for documents it has indexed:         *)
(* IndexingService.index_document and delete_document_index are public,    *)
(* and a caller may run them in any order once the first run is over.      *)
(* The runs start from uploaded and indexed documents (IndexedInit).       *)
(***************************************************************************)
MaxReruns == 1

NoCalls ==
    [reruns |-> 0, purged |-> FALSE, first_count |-> 0]

ServiceInit ==
    calls = [d \in Docs |-> NoCalls]

\* the entries the first run left, noted when the first later call comes
FirstCount(d) ==
    IF calls[d].reruns = 0 /\ ~calls[d].purged
    THEN Cardinality(EntriesOfSource(index, d))
    ELSE calls[d].first_count

\* index_document called again for a row whose earlier run has returned
IndexAgain(d, u) ==
    /\ tasks[d].pc = "done"
    /\ materials[d].state = "live"
    /\ calls[d].reruns < MaxReruns
    /\ tasks' = [tasks EXCEPT ![d] =
                    [NoTask EXCEPT !.pc = "scheduled", !.user_id = u]]
    /\ calls' = [calls EXCEPT ![d].reruns = @ + 1,
                              ![d].first_count = FirstCount(d)]
    /\ UNCHANGED <<notebooks, materials, files, index, loop_owner, patches>>
    /\ UNCHANGED <<chunkerVars, chatVars, cardVars, generationVars, streamVars,
                   embeddingVars, twinVars>>

\* delete_document_index, between two runs
DeleteDocumentIndex(d) ==
    /\ LoopFree
    /\ tasks[d].pc = "done"
    /\ materials[d].state = "live"
    /\ ~calls[d].purged
    /\ index' = delete_by_source_material(index, d).index
    /\ calls' = [calls EXCEPT ![d].purged = TRUE,
                              ![d].first_count = FirstCount(d)]
    /\ UNCHANGED <<notebooks, materials, files, tasks, loop_owner, patches>>
    /\ UNCHANGED <<chunkerVars, chatVars, cardVars, generationVars, streamVars,
                   embeddingVars, twinVars>>

ServiceNext ==
    \/ \E d \in Docs : TaskBegin(d)
    \/ \E d \in Docs : TaskGet(d)
    \/ \E d \in Docs : TaskIndex(d)
    \/ \E d \in Docs : TaskMark(d)
    \/ \E d \in Docs, u \in Users : IndexAgain(d, u)
    \/ \E d \in Docs : DeleteDocumentIndex(d)

\* the step in which add_documents returns for document d
AddStep(d) ==
    TaskStep(d) /\ tasks[d].pc = "text" /\ tasks'[d].pc = "mark"

\* C11: when add_documents returns for a document, whether its source id
\* held entries of an earlier run or not, the index holds for it one entry
\* per chunk, no id twice, the chunk indices 0 .. N - 1 with their texts,
\* a query on its notebook returns an entry, and after a first run that
\* left entries the count is the one the first run left (also when
\* delete_by_source ran in between).
C11_ReindexKeepsEntries ==
    [][\A d \in Docs :
        AddStep(d) =>
            LET held == EntriesOfSource(index', d) IN
            /\ Cardinality(held) = tasks[d].chunks
            /\ Cardinality(Ids(held)) = Cardinality(held)
            /\ {e.metadata.chunk_index : e \in held}
                    = 0..(tasks[d].chunks - 1)
            /\ \A e \in held :
                e.document = <<tasks[d].content_url, e.metadata.chunk_index>>
            /\ \A q \in QueryTexts :
                query(index', q, tasks[d].notebook_id, tasks[d].user_id, 1)
                    # <<>>
            /\ (calls[d].reruns >= 1 /\ calls[d].first_count >= 1) =>
                Cardinality(held) = calls[d].first_count
      ]_vars

\* C11 witness: one document was indexed again on top of the entries of
\* its first run, another after delete_by_source removed them, and both
\* second runs have stored their chunks.
C11_Witness ==
    \E d, o \in Docs :
        /\ calls[d].reruns = 1 /\ calls[o].reruns = 1
        /\ calls[d].first_count >= 1 /\ calls[o].first_count >= 1
        /\ ~calls[d].purged /\ calls[o].purged
        /\ tasks[d].result = "true" /\ tasks[o].result = "true"
        /\ Cardinality(EntriesOfSource(index, d)) = calls[d].first_count
        /\ Cardinality(EntriesOfSource(index, o)) = calls[o].first_count

(***************************************************************************)
(* chat_with_notebook: one conversational turn.  The generator runs from   *)
(* one yield or provider call to the next; texts are numbered, 0 is the    *)
(* empty string.                                                           *)
(***************************************************************************)
MaxFragments == 2

EmptyText == 0
Messages == QueryTexts
Fragments == 1..MaxFragments

\* response.content[0].text of the rewrite call: a text, possibly nothing
\* but blanks, possibly with blanks around it
RewriteResponses ==
    [body : QueryTexts \cup {EmptyText}, padded : BOOLEAN]

\* str.strip()
Strip(response) ==
    response.body

NoChat ==
    [pc |-> "idle", notebook_id |-> 0, user_id |-> 0, message |-> 0,
     n_results |-> 0, rewritten_query |-> 0, results |-> <<>>,
     context |-> <<>>]

NoProvider ==
    [rewrite |-> "none", query |-> "none", query_text |-> 0,
     complete |-> "none", context |-> <<>>, fragments |-> <<>>]

ChatIdle ==
    /\ chat = NoChat
    /\ events = <<>>
    /\ provider = NoProvider

\* the index a turn finds: the documents 1 .. m of notebook 1, of one
\* chunk each, uploaded and indexed
RECURSIVE IndexOf(_)
IndexOf(m) ==
    IF m = 0 THEN {}
    ELSE add_documents(IndexOf(m - 1), 1, m, 1, 1, m,
                       [title |-> m, source_type |-> "upload"])

IndexedInit ==
    \E m \in 0..MaxDocs :
        /\ notebooks = [n \in Notebooks |-> [state |-> "live", user_id |-> 1]]
        /\ materials = [d \in Docs |->
              IF d <= m
              THEN [state |-> "live", notebook_id |-> 1, content_url |-> d,
                    processed |-> TRUE]
              ELSE NoMaterial]
        /\ files = [f \in Urls |->
              IF f <= m THEN [kind |-> "text", n |-> 1] ELSE NoFile]
        /\ index = IndexOf(m)
        /\ tasks = [d \in Docs |->
              IF d <= m
              THEN [NoTask EXCEPT !.pc = "done", !.result = "true",
                                  !.embedded = 1]
              ELSE NoTask]
        /\ loop_owner = 0
        /\ patches = 0

StatusEvent(message) ==
    [event |-> "status", data |-> message]

\* sources_data: title and similarity of each result, in order (the
\* preview is cut from the text)
SourcesEvent(results) ==
    [event |-> "sources",
     data |-> [i \in DOMAIN results |->
                  [title |-> results[i].metadata.title,
                   preview |-> results[i].document]]]

ContentEvent(text) ==
    [event |-> "content", data |-> text]

DoneEvent ==
    [event |-> "done", data |-> "{}"]

ErrorEvent(description) ==
    [event |-> "error", data |-> description]

\* _format_context_for_llm: the fixed sentence without results, else one
\* part per result, numbered from 1
FormatEmptyJoin(results) ==
    [i \in DOMAIN results |->
        [document |-> i, title |-> results[i].metadata.title,
         text |-> results[i].document]]

format_context_for_llm(results) ==
    IF results = <<>>
    THEN <<[sentence |-> "No relevant documents found."]>>
    ELSE [i \in DOMAIN results |->
            [document |-> i, title |-> results[i].metadata.title,
             text |-> results[i].document]]

\* except Exception as e: yield the error event; the generator returns
ErrorThenDone(evs, description) ==
    evs \o <<ErrorEvent(description), DoneEvent>>

OnChatException(evs, description) ==
    Append(evs, ErrorEvent(description))

\* the rewrite call raised: the except clause
RewriteFailureIgnored(c, evs) ==
    [chat |-> [c EXCEPT !.pc = "retrieve", !.rewritten_query = c.message],
     events |-> Append(evs, StatusEvent("Searching documents..."))]

RewriteFailed(c, evs) ==
    [chat |-> [c EXCEPT !.pc = "closed"],
     events |-> OnChatException(evs, "rewrite failed")]

\* lines 566-593: the ownership check, then the first yield
ChatStart(n, u, message, n_results) ==
    /\ chat.pc = "idle"
    /\ notebooks[n].state = "live"
    /\ notebooks[n].user_id = u
    /\ chat' = [chat EXCEPT !.pc = "rewrite", !.notebook_id = n,
                            !.user_id = u, !.message = message,
                            !.n_results = n_results]
    /\ events' = Append(events, StatusEvent("Analyzing your question..."))
    /\ UNCHANGED provider
    /\ UNCHANGED <<pipelineVars, otherThanChat>>

\* lines 595-610: rewrite_query_for_rag, then the second status
ChatRewrite ==
    /\ chat.pc = "rewrite"
    /\ \/ /\ provider' = [provider EXCEPT !.rewrite = "raised"]
          /\ chat' = RewriteFailed(chat, events).chat
          /\ events' = RewriteFailed(chat, events).events
       \/ \E response \in RewriteResponses :
          /\ provider' = [provider EXCEPT !.rewrite = "ok"]
          /\ chat' = [chat EXCEPT !.pc = "retrieve",
                                  !.rewritten_query = Strip(response)]
          /\ events' = Append(events, StatusEvent("Searching documents..."))
    /\ UNCHANGED <<pipelineVars, otherThanChat>>

\* lines 612-638: vs.query, the sources event, the context, the third
\* status
ChatRetrieve ==
    /\ chat.pc = "retrieve"
    /\ \/ /\ provider' = [provider EXCEPT
                !.query = "raised", !.query_text = chat.rewritten_query]
          /\ chat' = [chat EXCEPT !.pc = "closed"]
          /\ events' = OnChatException(events, "retrieval failed")
       \/ LET results == query(index, chat.rewritten_query,
                               chat.notebook_id, chat.user_id,
                               chat.n_results)
          IN  /\ provider' = [provider EXCEPT
                    !.query = "ok", !.query_text = chat.rewritten_query]
              /\ chat' = [chat EXCEPT
                    !.pc = "complete", !.results = results,
                    !.context = format_context_for_llm(results)]
              /\ events' = events \o
                    <<SourcesEvent(results),
                      StatusEvent("Generating response...")>>
    /\ UNCHANGED <<pipelineVars, otherThanChat>>

\* lines 640-644: generate_response_stream opens the completion stream
ChatComplete ==
    /\ chat.pc = "complete"
    /\ \/ /\ provider' = [provider EXCEPT !.complete = "raised",
                                          !.context = chat.context]
          /\ chat' = [chat EXCEPT !.pc = "closed"]
          /\ events' = OnChatException(events, "completion failed")
       \/ /\ provider' = [provider EXCEPT !.complete = "streaming",
                                          !.context = chat.context]
          /\ chat' = [chat EXCEPT !.pc = "stream"]
          /\ UNCHANGED events
    /\ UNCHANGED <<pipelineVars, otherThanChat>>

\* lines 640-648: a fragment arrives and is yielded
ChatContent(text) ==
    /\ chat.pc = "stream"
    /\ Len(provider.fragments) < MaxFragments
    /\ provider' = [provider EXCEPT !.fragments = Append(@, text)]
    /\ events' = Append(events, ContentEvent(text))
    /\ UNCHANGED chat
    /\ UNCHANGED <<pipelineVars, otherThanChat>>

\* lines 650-654: the stream ends, done is yielded
ChatDone ==
    /\ chat.pc = "stream"
    /\ provider' = [provider EXCEPT !.complete = "ended"]
    /\ chat' = [chat EXCEPT !.pc = "closed"]
    /\ events' = Append(events, DoneEvent)
    /\ UNCHANGED <<pipelineVars, otherThanChat>>

\* lines 656-661: the stream raises between two fragments
ChatStreamError ==
    /\ chat.pc = "stream"
    /\ provider' = [provider EXCEPT !.complete = "raised"]
    /\ chat' = [chat EXCEPT !.pc = "closed"]
    /\ events' = OnChatException(events, "completion failed")
    /\ UNCHANGED <<pipelineVars, otherThanChat>>

\* the client goes away: the generator is closed at the yield it waits in
ChatCancel ==
    /\ chat.pc \in {"rewrite", "retrieve", "complete", "stream"}
    /\ chat' = [chat EXCEPT !.pc = "cancelled"]
    /\ UNCHANGED <<events, provider>>
    /\ UNCHANGED <<pipelineVars, otherThanChat>>

ChatNext ==
    \/ \E n \in Notebooks, u \in Users, message \in Messages,
          n_results \in 1..MaxResults :
            ChatStart(n, u, message, n_results)
    \/ ChatRewrite
    \/ ChatRetrieve
    \/ ChatComplete
    \/ \E text \in Fragments : ChatContent(text)
    \/ ChatDone
    \/ ChatStreamError
    \/ ChatCancel

(***************************************************************************)
(* Properties of the chat turn.                                            *)
(***************************************************************************)
Positions(type) ==
    {i \in DOMAIN events : events[i].event = type}

TerminalPositions ==
    Positions("done") \cup Positions("error")

IsContent(e) ==
    e.event = "content"

ContentTexts ==
    LET content == SelectSeq(events, IsContent) IN
    [i \in DOMAIN content |-> content[i].data]

\* C12: the stream of a turn starts with a status event, holds the sources
\* event at most once and before every content event, holds one terminal
\* event (done or error) exactly when the generator has returned, as its
\* last event; done only after rewrite, retrieval and the whole completion
\* stream succeeded; the content events carry the fragments in the order
\* of their arrival.
C12_StreamShape ==
    /\ chat.pc # "idle" => (events # <<>> /\ events[1].event = "status")
    /\ Cardinality(Positions("sources")) <= 1
    /\ \A i \in Positions("content") :
            \E j \in Positions("sources") : j < i
    /\ Cardinality(TerminalPositions) <= 1
    /\ \A i \in TerminalPositions : i = Len(events)
    /\ chat.pc = "closed" <=> TerminalPositions # {}
    /\ Positions("done") # {} =>
            /\ provider.rewrite = "ok"
            /\ provider.query = "ok"
            /\ provider.complete = "ended"
    /\ ContentTexts = provider.fragments

\* C12 witness: a turn with results ended with done after two different
\* fragments.
C12_Witness ==
    /\ chat.pc = "closed"
    /\ Last(events) = DoneEvent
    /\ chat.results # <<>>
    /\ Len(provider.fragments) = MaxFragments
    /\ provider.fragments[1] # provider.fragments[2]

FailureDescription ==
    IF provider.rewrite = "raised" THEN "rewrite failed"
    ELSE IF provider.query = "raised" THEN "retrieval failed"
    ELSE "completion failed"

ChatFailed ==
    "raised" \in {provider.rewrite, provider.query, provider.complete}

FailureAborts ==
    /\ provider.rewrite = "raised" =>
            provider.query = "none" /\ provider.complete = "none"
    /\ provider.query = "raised" => provider.complete = "none"
    /\ ChatFailed =>
            /\ chat.pc = "closed"
            /\ Last(events) = ErrorEvent(FailureDescription)
            /\ Cardinality(Positions("error")) = 1
            /\ Positions("done") = {}

\* C13: after a failure of the rewrite, the retrieval or the completion
\* stream no later stage is called, the stream ends with its only error
\* event, which carries the description of the failure, there is no done
\* event, and every step keeps the events emitted before it.
C13_FailureAborts ==
    [][FailureAborts' /\ IsPrefix(events, events')]_vars

\* C13 witness: the completion stream raised after a fragment had been
\* forwarded; sources and content events are still in the stream.
C13_Witness ==
    /\ provider.complete = "raised"
    /\ Len(provider.fragments) >= 1
    /\ Positions("content") # {}
    /\ Positions("sources") # {}
    /\ Last(events).event = "error"

NoRelevantDocuments ==
    <<[sentence |-> "No relevant documents found."]>>

\* C14: when the retrieval returns no result, the stream holds a sources
\* event with an empty list, the context is the fixed sentence and the
\* completion is requested with it, the turn goes on to the completion, and
\* an error event comes only from the completion raising.
C14_EmptyRetrieval ==
    (provider.query = "ok" /\ chat.results = <<>>) =>
        /\ \E i \in Positions("sources") : events[i].data = <<>>
        /\ chat.context = NoRelevantDocuments
        /\ chat.pc \in {"complete", "stream", "closed", "cancelled"}
        /\ provider.complete # "none" => provider.context = NoRelevantDocuments
        /\ Positions("error") # {} => provider.complete = "raised"

\* C14 witness: the index holds entries of another notebook, the retrieval
\* returned none, and the turn ended with done after a fragment.
C14_Witness ==
    /\ index # {}
    /\ provider.query = "ok"
    /\ chat.results = <<>>
    /\ Positions("content") # {}
    /\ Last(events) = DoneEvent

\* C15: the query text passed to the similarity query is never the empty
\* string, and it is the user's message when the stripped rewrite is empty.
C15_RetrievalQueryNonEmpty ==
    provider.query # "none" =>
        /\ provider.query_text # EmptyText
        /\ chat.rewritten_query = EmptyText =>
                provider.query_text = chat.message

(***************************************************************************)
(* Flashcards: the card endpoints of routers/notebooks.py and of           *)
(* routers/flashcards.py on the same tables.  ease_factor is kept in       *)
(* hundredths (2.5 is 250): every term of the update is a whole number of  *)
(* hundredths.  Time is counted in days.                                   *)
(***************************************************************************)
MaxCards == 1
MaxRequests == 4
MaxQuality == 5
MaxDay == 1

EaseScale == 100
DefaultIntervalDays == 1
DefaultEaseFactor == 250
MinEaseFactor == 130
NoReviewDate == -1

Cards == 1..MaxCards
Questions == {"q1", "q2"}

\* CardReviewBase.quality: int, any integer the request carries
Qualities == 0..MaxQuality

NoCard ==
    [state |-> "none", notebook_id |-> 0, question |-> "",
     interval_days |-> 0, ease_factor |-> 0, next_review_at |-> NoReviewDate]

CardsInit ==
    /\ cards = [c \in Cards |-> NoCard]
    /\ reviews = <<>>
    /\ now = 0
    /\ requests = 0

Max(a, b) ==
    IF a >= b THEN a ELSE b

\* int(x) of num / den: truncation towards zero
IntOf(num, den) ==
    IF num >= 0 THEN num \div den ELSE 0 - ((0 - num) \div den)

\* 0.1 - (5 - quality) * (0.08 + (5 - quality) * 0.02)
EaseChange(quality) ==
    10 - (5 - quality) * (8 + (5 - quality) * 2)

\* routers/notebooks.py review_card, lines 1147-1166
ReviewEaseFirst(card, quality, today) ==
    LET ease == Max(MinEaseFactor, card.ease_factor + EaseChange(quality))
        interval == IF quality < 3 THEN 1
                    ELSE IF card.interval_days = 1 THEN 6
                    ELSE IntOf(card.interval_days * ease, EaseScale)
    IN  [card EXCEPT !.interval_days = interval,
                     !.ease_factor = ease,
                     !.next_review_at = today + interval]

review_card_update(card, quality, today) ==
    LET interval == IF quality < 3 THEN 1
                    ELSE IF card.interval_days = 1 THEN 6
                    ELSE IntOf(card.interval_days * card.ease_factor,
                               EaseScale)
    IN  [card EXCEPT
            !.interval_days = interval,
            !.ease_factor = Max(MinEaseFactor,
                                card.ease_factor + EaseChange(quality)),
            !.next_review_at = today + interval]

\* routers/flashcards.py create_card_review, lines 157-167
ReviewWithoutFloor(card, quality, today) ==
    LET interval == IF quality >= 3
                    THEN (IF card.interval_days = 1 THEN 6
                          ELSE IntOf(card.interval_days * card.ease_factor,
                                     EaseScale))
                    ELSE 1
    IN  [card EXCEPT
            !.interval_days = interval,
            !.ease_factor = card.ease_factor + EaseChange(quality),
            !.next_review_at = today + interval]

\* the branch written as quality > 3
ReviewPassAboveThree(card, quality, today) ==
    LET interval == IF quality > 3
                    THEN (IF card.interval_days = 1 THEN 6
                          ELSE IntOf(card.interval_days * card.ease_factor,
                                     EaseScale))
                    ELSE 1
    IN  [card EXCEPT
            !.interval_days = interval,
            !.ease_factor = Max(MinEaseFactor,
                                card.ease_factor + EaseChange(quality)),
            !.next_review_at = today + interval]

create_card_review_update(card, quality, today) ==
    LET interval == IF quality >= 3
                    THEN (IF card.interval_days = 1 THEN 6
                          ELSE IntOf(card.interval_days * card.ease_factor,
                                     EaseScale))
                    ELSE 1
    IN  [card EXCEPT
            !.interval_days = interval,
            !.ease_factor = Max(MinEaseFactor,
                                card.ease_factor + EaseChange(quality)),
            !.next_review_at = today + interval]

CardReview(c, u, quality) ==
    [flashcard_id |-> c, user_id |-> u, quality |-> quality]

\* the notebook of the request exists and is the caller's, and the card is
\* in one of its decks
OwnCard(n, u, c) ==
    /\ notebooks[n].state = "live"
    /\ notebooks[n].user_id = u
    /\ cards[c].state = "live"
    /\ cards[c].notebook_id = n

NewCard(n, question) ==
    [state |-> "live", notebook_id |-> n, question |-> question,
     interval_days |-> DefaultIntervalDays,
     ease_factor |-> DefaultEaseFactor,
     next_review_at |-> NoReviewDate]

\* routers/notebooks.py create_card
CreateCard(n, u, question) ==
    /\ notebooks[n].state = "live"
    /\ notebooks[n].user_id = u
    /\ \E c \in Cards :
        /\ cards[c].state = "none"
        /\ \A o \in Cards : o < c => cards[o].state # "none"
        /\ cards' = [cards EXCEPT ![c] = NewCard(n, question)]
    /\ UNCHANGED <<reviews, now>>
    /\ requests < MaxRequests
    /\ requests' = requests + 1
    /\ UNCHANGED otherThanCards

\* routers/flashcards.py create_flashcard: the deck exists
CreateFlashcard(n, question) ==
    /\ notebooks[n].state = "live"
    /\ \E c \in Cards :
        /\ cards[c].state = "none"
        /\ \A o \in Cards : o < c => cards[o].state # "none"
        /\ cards' = [cards EXCEPT ![c] = NewCard(n, question)]
    /\ UNCHANGED <<reviews, now>>
    /\ requests < MaxRequests
    /\ requests' = requests + 1
    /\ UNCHANGED otherThanCards

\* routers/notebooks.py review_card
ReviewCard(n, u, c, quality) ==
    /\ OwnCard(n, u, c)
    /\ reviews' = Append(reviews, CardReview(c, u, quality))
    /\ cards' = [cards EXCEPT ![c] = review_card_update(@, quality, now)]
    /\ UNCHANGED now
    /\ requests < MaxRequests
    /\ requests' = requests + 1
    /\ UNCHANGED otherThanCards

\* routers/flashcards.py create_card_review: the card and the user exist
CreateCardReview(c, u, quality) ==
    /\ cards[c].state = "live"
    /\ reviews' = Append(reviews, CardReview(c, u, quality))
    /\ cards' = [cards EXCEPT ![c] =
                    create_card_review_update(@, quality, now)]
    /\ UNCHANGED now
    /\ requests < MaxRequests
    /\ requests' = requests + 1
    /\ UNCHANGED otherThanCards

\* the clock
Tick ==
    /\ now < MaxDay
    /\ now' = now + 1
    /\ UNCHANGED <<cards, reviews, requests>>
    /\ UNCHANGED otherThanCards

ReviewNext ==
    \/ \E n \in Notebooks, u \in Users, question \in Questions :
            CreateCard(n, u, question)
    \/ \E n \in Notebooks, question \in Questions :
            CreateFlashcard(n, question)
    \/ \E n \in Notebooks, u \in Users, c \in Cards, quality \in Qualities :
            ReviewCard(n, u, c, quality)
    \/ \E c \in Cards, u \in Users, quality \in Qualities :
            CreateCardReview(c, u, quality)
    \/ Tick

\* FlashcardUpdate bodies with one field set (exclude_unset keeps only
\* the fields the request carries)
CardUpdates ==
    {[question |-> q] : q \in Questions}
        \cup {[interval_days |-> i] : i \in {0, 3}}
        \cup {[ease_factor |-> EaseScale]}
        \cup {[next_review_at |-> 0]}

\* for field, value in update_data.items(): setattr(card, field, value)
SetAttrs(card, update_data) ==
    [field \in DOMAIN card |->
        IF field \in DOMAIN update_data THEN update_data[field]
        ELSE card[field]]

OfOtherCards(c, r) ==
    r.flashcard_id # c

\* cascade="all, delete-orphan" on Flashcard.reviews
WithoutReviewsOf(c) ==
    SelectSeq(reviews, LAMBDA r : OfOtherCards(c, r))

\* routers/notebooks.py update_card
UpdateCard(n, u, c, card_update) ==
    /\ OwnCard(n, u, c)
    /\ cards' = [cards EXCEPT ![c] = SetAttrs(@, card_update)]
    /\ UNCHANGED <<reviews, now>>
    /\ requests < MaxRequests
    /\ requests' = requests + 1
    /\ UNCHANGED otherThanCards

\* routers/flashcards.py update_flashcard
UpdateFlashcard(c, card_update) ==
    /\ cards[c].state = "live"
    /\ cards' = [cards EXCEPT ![c] = SetAttrs(@, card_update)]
    /\ UNCHANGED <<reviews, now>>
    /\ requests < MaxRequests
    /\ requests' = requests + 1
    /\ UNCHANGED otherThanCards

\* routers/notebooks.py delete_card
DeleteCard(n, u, c) ==
    /\ OwnCard(n, u, c)
    /\ cards' = [cards EXCEPT ![c].state = "deleted"]
    /\ reviews' = WithoutReviewsOf(c)
    /\ UNCHANGED now
    /\ requests < MaxRequests
    /\ requests' = requests + 1
    /\ UNCHANGED otherThanCards

\* routers/flashcards.py delete_flashcard
DeleteFlashcard(c) ==
    /\ cards[c].state = "live"
    /\ cards' = [cards EXCEPT ![c].state = "deleted"]
    /\ reviews' = WithoutReviewsOf(c)
    /\ UNCHANGED now
    /\ requests < MaxRequests
    /\ requests' = requests + 1
    /\ UNCHANGED otherThanCards

CardsNext ==
    \/ ReviewNext
    \/ \E n \in Notebooks, u \in Users, c \in Cards,
          card_update \in CardUpdates : UpdateCard(n, u, c, card_update)
    \/ \E c \in Cards, card_update \in CardUpdates :
            UpdateFlashcard(c, card_update)
    \/ \E n \in Notebooks, u \in Users, c \in Cards : DeleteCard(n, u, c)
    \/ \E c \in Cards : DeleteFlashcard(c)

(***************************************************************************)
(* Properties of the flashcard scheduler.                                  *)
(***************************************************************************)
\* a step that stores a review
ReviewStep ==
    Len(reviews') = Len(reviews) + 1

Floor(num, den) ==
    num \div den

\* C16: a review of quality q on a card with interval i and ease e sets
\* the interval to 1 if q < 3, to 6 if q >= 3 and i = 1, else to
\* floor(i * e) with the ease before the review; the ease to
\* max(1.3, e + 0.1 - (5 - q) * (0.08 + (5 - q) * 0.02)); next_review_at to
\* now plus the new interval.  (1, 2.5, 4) gives 6; (6, 2.5, 5) gives 15
\* and an ease above 2.5.
C16_SchedulerUpdate ==
    [][ReviewStep =>
        LET c == Last(reviews').flashcard_id
            q == Last(reviews').quality
            i == cards[c].interval_days
            e == cards[c].ease_factor
            interval == IF q < 3 THEN 1
                        ELSE IF i = 1 THEN 6
                        ELSE Floor(i * e, EaseScale)
            change == 10 - (5 - q) * (8 + (5 - q) * 2)
        IN  /\ cards'[c].interval_days = interval
            /\ cards'[c].ease_factor =
                    (IF e + change >= 130 THEN e + change ELSE 130)
            /\ cards'[c].next_review_at = now + interval
            /\ (i = 1 /\ e = 250 /\ q = 4) => cards'[c].interval_days = 6
            /\ (i = 6 /\ e = 250 /\ q = 5) =>
                    /\ cards'[c].interval_days = 15
                    /\ cards'[c].ease_factor > 250
      ]_vars

\* C16 witness: a new card reviewed with quality 4 and then, a day later,
\* with quality 5: interval 15, ease 2.6, due 15 days later.
C16_Witness ==
    \E c \in Cards :
        /\ Len(reviews) = 2
        /\ reviews[1].quality = 4 /\ reviews[2].quality = 5
        /\ cards[c].interval_days = 15
        /\ cards[c].ease_factor = 260
        /\ now = 1
        /\ cards[c].next_review_at = 16

SrsInRange ==
    \A c \in Cards :
        cards[c].state = "live" =>
            cards[c].ease_factor >= 130 /\ cards[c].interval_days >= 1

\* C17: from a new card (interval 1, ease 2.5) and through any reviews,
\* the ease stays >= 1.3 and the interval >= 1, and a review of quality 1
\* or 2 sets the interval to 1 whatever it was.
C17_SrsInvariant ==
    [][/\ SrsInRange'
       /\ (ReviewStep /\ Last(reviews').quality \in {1, 2}) =>
            cards'[Last(reviews').flashcard_id].interval_days = 1
      ]_vars

\* C17 witness: a new card failed three times in a row: interval 1, and
\* the ease stopped at 1.3 (2.5 - 3 * 0.54 is less).
C17_Witness ==
    \E c \in Cards :
        /\ Len(reviews) = 3
        /\ \A k \in 1..3 : reviews[k].quality = 1
        /\ cards[c].interval_days = 1
        /\ cards[c].ease_factor = 130

Srs(card) ==
    <<card.interval_days, card.ease_factor, card.next_review_at>>

\* C18: the SRS fields of a card change only in a step that appends one
\* CardReview of that card, and a step that stores a review appends
\* exactly one record.
C18_SrsOnlyByReview ==
    [][/\ \A c \in Cards :
            (/\ cards[c].state = "live"
             /\ cards'[c].state = "live"
             /\ Srs(cards'[c]) # Srs(cards[c])) =>
                /\ ReviewStep
                /\ Last(reviews').flashcard_id = c
       /\ ReviewStep => SubSeq(reviews', 1, Len(reviews)) = reviews
      ]_vars

\* C19: every stored CardReview has a quality in 1 .. 5.
C19_QualityInRange ==
    \A k \in DOMAIN reviews : reviews[k].quality \in 1..5

\* C30: review_card and create_card_review compute the same update: from
\* any card state the program reaches and for any quality the two results
\* agree, and a step of either endpoint appends one CardReview and leaves
\* the card as both updates have it.
C30_SameSchedulerUpdate ==
    [][/\ \A c \in Cards, q \in Qualities :
            cards'[c].state = "live" =>
                review_card_update(cards'[c], q, now')
                    = create_card_review_update(cards'[c], q, now')
       /\ ReviewStep =>
            LET r == Last(reviews')
                c == r.flashcard_id
            IN  /\ reviews' = Append(reviews, r)
                /\ cards'[c] = review_card_update(cards[c], r.quality, now)
                /\ cards'[c] =
                        create_card_review_update(cards[c], r.quality, now)
      ]_vars

\* C30 witness: a card whose interval a PATCH had set to 3 was reviewed
\* with quality 3: interval int(3 * 2.5) = 7 and ease 2.36.
C30_Witness ==
    \E c \in Cards :
        /\ Len(reviews) = 1
        /\ reviews[1].quality = 3
        /\ cards[c].state = "live"
        /\ cards[c].interval_days = 7
        /\ cards[c].ease_factor = 236

(***************************************************************************)
(* Card generation: LLMService.generate_flashcards of services/llm.py.     *)
(* A response text is a sequence of tokens: the brackets and the comma of  *)
(* a JSON array, "object" for a JSON object with the keys question and     *)
(* answer, "number" for a JSON number, "word" for prose that is not JSON,  *)
(* and "space" for white space.                                            *)
(***************************************************************************)
MaxTextLen == 5
MaxCardsAsked == 2

Tokens == {"[", "]", ",", "object", "number", "word", "space"}

Texts == UNION {[1..n -> Tokens] : n \in 0..MaxTextLen}

\* chunks, each given by its source_material_id
ChunkLists == {<<>>, <<1>>}

\* source_material_id = None
NoSource == 0

NoValue ==
    [kind |-> "none"]

NoGeneration ==
    [pc |-> "idle", chunks |-> <<>>, max_cards |-> 0,
     response_text |-> <<>>, result |-> <<>>]

GenerationIdle ==
    generation = NoGeneration

RECURSIVE LStrip(_)
LStrip(s) ==
    IF s # <<>> /\ Head(s) = "space" THEN LStrip(Tail(s)) ELSE s

RECURSIVE RStrip(_)
RStrip(s) ==
    IF s # <<>> /\ s[Len(s)] = "space"
    THEN RStrip(SubSeq(s, 1, Len(s) - 1))
    ELSE s

\* str.strip()
StripText(s) ==
    RStrip(LStrip(s))

IsNotSpace(t) ==
    t # "space"

\* the JSON decoder skips white space between tokens
WithoutSpace(s) ==
    SelectSeq(s, IsNotSpace)

JsonObject ==
    [kind |-> "object"]

JsonNumber ==
    [kind |-> "number"]

JsonArray(items) ==
    [kind |-> "array", items |-> items]

\* json.JSONDecodeError
JSONDecodeError ==
    [ok |-> FALSE, value |-> NoValue, rest |-> <<>>]

Parsed(value, rest) ==
    [ok |-> TRUE, value |-> value, rest |-> rest]

\* the JSON grammar on tokens: a value is an object, a number or an array
\* "[" "]" or "[" value ("," value)* "]"
RECURSIVE ParseValue(_), ParseElements(_, _)
ParseValue(s) ==
    IF s = <<>> THEN JSONDecodeError
    ELSE IF Head(s) = "object" THEN Parsed(JsonObject, Tail(s))
    ELSE IF Head(s) = "number" THEN Parsed(JsonNumber, Tail(s))
    ELSE IF Head(s) = "["
         THEN IF Tail(s) # <<>> /\ Head(Tail(s)) = "]"
              THEN Parsed(JsonArray(<<>>), Tail(Tail(s)))
              ELSE ParseElements(Tail(s), <<>>)
    ELSE JSONDecodeError

ParseElements(s, items) ==
    LET first == ParseValue(s)
    IN  IF ~first.ok \/ first.rest = <<>> THEN JSONDecodeError
        ELSE IF Head(first.rest) = ","
             THEN ParseElements(Tail(first.rest), Append(items, first.value))
        ELSE IF Head(first.rest) = "]"
             THEN Parsed(JsonArray(Append(items, first.value)),
                         Tail(first.rest))
        ELSE JSONDecodeError

\* json.loads(text): one value and nothing after it
json_loads(text) ==
    LET r == ParseValue(WithoutSpace(text))
    IN  IF r.ok /\ r.rest = <<>> THEN r ELSE JSONDecodeError

PositionsOf(text, t) ==
    {i \in 1..Len(text) : text[i] = t}

MinOf(S) ==
    CHOOSE i \in S : \A j \in S : i <= j

MaxOf(S) ==
    CHOOSE i \in S : \A j \in S : i >= j

\* re.search(r'\[[\s\S]*\]', text): from the first "[" to the last "]"
\* after it
re_search(text) ==
    LET opens == PositionsOf(text, "[")
        closes == PositionsOf(text, "]")
    IN  IF opens = {} \/ closes = {} \/ MaxOf(closes) < MinOf(opens)
        THEN [found |-> FALSE, group |-> <<>>]
        ELSE [found |-> TRUE,
              group |-> SubSeq(text, MinOf(opens), MaxOf(closes))]

\* the card the loop appends for an object without chunk_index:
\* chunk_idx = 1 - 1, and the source is that of chunks[0] if there is one
MappedCard(given) ==
    [question |-> "question", answer |-> "answer",
     source_material_id |-> IF 0 < Len(given) THEN given[1] ELSE NoSource]

\* for card in cards_data: card.get(...): a number is not iterable, an
\* object iterates over its keys, and only objects have get
LoopRaises(cards_data) ==
    \/ cards_data.kind = "number"
    \/ cards_data.kind = "object"
    \/ /\ cards_data.kind = "array"
       /\ \E k \in DOMAIN cards_data.items :
            cards_data.items[k].kind # "object"

Returned(g, result) ==
    [g EXCEPT !.pc = "returned", !.result = result]

Raised(g) ==
    [g EXCEPT !.pc = "raised"]

\* lines 171-185: the loop and return result[:max_cards]
MapCards(g, cards_data) ==
    IF LoopRaises(cards_data) THEN Raised(g)
    ELSE LET n == Len(cards_data.items)
             kept == IF n <= g.max_cards THEN n ELSE g.max_cards
         IN  Returned(g, [k \in 1..kept |-> MappedCard(g.chunks)])

\* lines 159-169: the direct parse, then the bracketed substring
ParseResponse(g) ==
    LET direct == json_loads(g.response_text)
        json_match == re_search(g.response_text)
        bracketed == json_loads(json_match.group)
    IN  IF direct.ok THEN MapCards(g, direct.value)
        ELSE IF ~json_match.found THEN Returned(g, <<>>)
        ELSE IF bracketed.ok THEN MapCards(g, bracketed.value)
        ELSE Raised(g)

\* generate_flashcards up to the await of messages.create
GenerateRequest(given, max_cards) ==
    /\ generation.pc = "idle"
    /\ generation' = [generation EXCEPT !.pc = "awaiting",
                                        !.chunks = given,
                                        !.max_cards = max_cards]
    /\ UNCHANGED otherThanGeneration

\* the provider answers with text; the rest of generate_flashcards
GenerateRespond(text) ==
    /\ generation.pc = "awaiting"
    /\ generation' =
            ParseResponse([generation EXCEPT
                                !.response_text = StripText(text)])
    /\ UNCHANGED otherThanGeneration

GenerationNext ==
    \/ \E given \in ChunkLists, max_cards \in 1..MaxCardsAsked :
            GenerateRequest(given, max_cards)
    \/ /\ generation.pc = "awaiting"
       /\ \E text \in Texts : GenerateRespond(text)

(***************************************************************************)
(* Properties of card generation.                                          *)
(***************************************************************************)
GenerationOver ==
    generation.pc \in {"returned", "raised"}

IsArrayOfObjects(r) ==
    /\ r.ok
    /\ r.value.kind = "array"
    /\ \A k \in DOMAIN r.value.items : r.value.items[k].kind = "object"

\* the number of cards of the array the text yields, directly or by its
\* bracket-delimited substring; 0 when neither is an array of objects
UsableCards(text) ==
    LET direct == json_loads(text)
        json_match == re_search(text)
        bracketed == json_loads(json_match.group)
    IN  IF direct.ok
        THEN (IF IsArrayOfObjects(direct)
              THEN Len(direct.value.items) ELSE 0)
        ELSE IF json_match.found /\ IsArrayOfObjects(bracketed)
             THEN Len(bracketed.value.items)
        ELSE 0

\* C20: whatever text the provider returns, generate_flashcards returns a
\* list and does not raise: the cards of the array the text is, or of its
\* bracket-delimited substring when the direct parse fails, and the empty
\* list when neither is an array of objects.
C20_GenerateNeverRaises ==
    GenerationOver =>
        /\ generation.pc = "returned"
        /\ LET n == UsableCards(generation.response_text)
           IN  Len(generation.result) =
                    (IF n <= generation.max_cards THEN n
                     ELSE generation.max_cards)

(***************************************************************************)
(* generate_cards: the card-generation stream of routers/notebooks.py.     *)
(* The handler checks the notebook and selects the processed materials;    *)
(* the generator then runs from one yield to the next.  The documents are  *)
(* indexed, indexed again and dropped from the index meanwhile.            *)
(***************************************************************************)
NoStream ==
    [pc |-> "idle", notebook_id |-> 0, materials |-> {}, max_cards |-> 0,
     events |-> <<>>]

StreamIdle ==
    stream = NoStream

\* request.source_material_ids: None (or empty) means all materials
Selections == SUBSET Docs

\* materials_query: the processed rows of the notebook, those of the
\* request if it names any
SelectedMaterials(n, source_material_ids) ==
    {d \in Docs :
        /\ materials[d].state = "live"
        /\ materials[d].notebook_id = n
        /\ materials[d].processed
        /\ (source_material_ids # {} => d \in source_material_ids)}

\* lines 967-1010: 404 without the notebook, 400 without processed
\* materials, else the response starts streaming
GenerateCards(n, u, source_material_ids, max_cards) ==
    /\ stream.pc = "idle"
    /\ notebooks[n].state = "live"
    /\ notebooks[n].user_id = u
    /\ SelectedMaterials(n, source_material_ids) # {}
    /\ stream' = [stream EXCEPT
                    !.pc = "started",
                    !.notebook_id = n,
                    !.materials = SelectedMaterials(n, source_material_ids),
                    !.max_cards = max_cards]
    /\ UNCHANGED otherThanStream

\* lines 1015-1019: the first yield
StreamStatus ==
    /\ stream.pc = "started"
    /\ stream' = [stream EXCEPT
                    !.pc = "gather",
                    !.events = Append(@, StatusEvent("retrieving"))]
    /\ UNCHANGED otherThanStream

\* str(e) of the AttributeError: VectorStoreService has no get_documents
NoGetDocuments ==
    "'VectorStoreService' object has no attribute 'get_documents'"

\* lines 1021-1028 and 1080-1085: the first material of the loop calls
\* vs.get_documents, which VectorStoreService does not define; the
\* AttributeError reaches except Exception, which yields the error event
StreamGather ==
    /\ stream.pc = "gather"
    /\ stream' = [stream EXCEPT
                    !.pc = "closed",
                    !.events = Append(@, ErrorEvent(NoGetDocuments))]
    /\ UNCHANGED otherThanStream

\* the client goes away while the generator is suspended in a yield
StreamCancel ==
    /\ stream.pc = "gather"
    /\ stream' = [stream EXCEPT !.pc = "closed"]
    /\ UNCHANGED otherThanStream

StreamNext ==
    \/ \E d \in Docs : TaskBegin(d)
    \/ \E d \in Docs : TaskGet(d)
    \/ \E d \in Docs : TaskIndex(d)
    \/ \E d \in Docs : TaskMark(d)
    \/ \E d \in Docs, u \in Users : IndexAgain(d, u)
    \/ \E d \in Docs : DeleteDocumentIndex(d)
    \/ \E n \in Notebooks, u \in Users, source_material_ids \in Selections,
          max_cards \in 1..MaxCardsAsked :
            GenerateCards(n, u, source_material_ids, max_cards)
    \/ StreamStatus
    \/ StreamGather
    \/ StreamCancel

(***************************************************************************)
(* Properties of the card-generation stream.                               *)
(***************************************************************************)
\* the generator resumes after its first yield and runs the gathering loop
GatherStep ==
    /\ stream.pc = "gather"
    /\ stream'.events # stream.events

\* C21: when a selected document has chunks in the index, the gathering
\* loop lists them and the stream goes on to the completion provider: the
\* step that gathers does not yield an error event, and the stream is not
\* over after it.
C21_GatherListsChunks ==
    [][(/\ GatherStep
        /\ \E d \in stream.materials : EntriesOfSource(index, d) # {}) =>
            /\ Last(stream'.events).event # "error"
            /\ stream'.pc # "closed"
      ]_vars

(***************************************************************************)
(* EmbeddingsService.generate_embeddings and VectorStoreService            *)
(* .add_documents called on their own: both are public, and a caller       *)
(* passes any list of texts and any additional_metadata.  A text is a      *)
(* number; the provider answers a call with one vector per input, in the   *)
(* order of the input.                                                     *)
(***************************************************************************)
MaxTexts == 201

NoEmbedding ==
    [pc |-> "idle", op |-> "none", texts |-> <<>>, vectors |-> <<>>,
     calls |-> <<>>, args |-> <<>>, ids |-> <<>>]

EmbeddingIdle ==
    embedding = NoEmbedding

\* n texts, pairwise different
TextsOf(n) ==
    [i \in 1..n |-> 2 * n - i]

\* the vector the provider computes for a text
Embed(text) ==
    [embedding_of |-> text]

\* client.embeddings.create(input=batch): response.data
ProviderCreate(batch) ==
    [k \in DOMAIN batch |-> Embed(batch[k])]

Min(a, b) ==
    IF a <= b THEN a ELSE b

\* texts[i:i + batch_size - 1]
BatchWithoutLast(texts, i) ==
    SubSeq(texts, i + 1, Min(i + batch_size - 1, Len(texts)))

\* texts[i:i + batch_size]
Batch(texts, i) ==
    SubSeq(texts, i + 1, Min(i + batch_size, Len(texts)))

\* for i in range(0, len(texts), batch_size): one provider call per batch;
\* calls keeps the size of each input
RECURSIVE EmbedLoop(_, _, _)
EmbedLoop(texts, i, acc) ==
    IF i >= Len(texts) THEN acc
    ELSE LET batch == Batch(texts, i)
         IN  EmbedLoop(texts, i + batch_size,
                       [vectors |-> acc.vectors \o ProviderCreate(batch),
                        calls |-> Append(acc.calls, Len(batch))])

generate_embeddings(texts) ==
    IF texts = <<>> THEN [vectors |-> <<>>, calls |-> <<>>]
    ELSE EmbedLoop(texts, 0, [vectors |-> <<>>, calls |-> <<>>])

GenerateEmbeddings(n) ==
    /\ embedding.pc = "idle"
    /\ LET r == generate_embeddings(TextsOf(n))
       IN  embedding' = [NoEmbedding EXCEPT
                            !.pc = "returned",
                            !.op = "generate_embeddings",
                            !.texts = TextsOf(n),
                            !.vectors = r.vectors,
                            !.calls = r.calls]
    /\ UNCHANGED <<pipelineVars, otherThanEmbedding>>

\* additional_metadata: None, the keys index_document passes, or a key
\* that is also a core key
NoMetadata == <<>>

ExtraMetadata ==
    {NoMetadata,
     [title |-> 1, source_type |-> "upload"],
     [source_material_id |-> MaxDocs + 1],
     [notebook_id |-> MaxNotebooks + 1],
     [user_id |-> MaxUsers + 1],
     [chunk_index |-> batch_size + 2],
     [total_chunks |-> 0]}

ChunkCounts ==
    {0, 1, 2, batch_size + 1}

\* f"{source_material_id}_chunk_{i}" for i in range(len(chunks))
ChunkIds(source_material_id, n) ==
    [k \in 1..n |-> <<source_material_id, k - 1>>]

\* add_documents: nothing for an empty list, else generate_embeddings,
\* the ids and metadatas, collection.add, and the ids as result
AddDocuments(n, source_material_id, notebook_id, user_id, additional_metadata) ==
    /\ embedding.pc = "idle"
    /\ index' = IF n = 0 THEN index
                ELSE add_documents(index, n, source_material_id, notebook_id,
                                   user_id, source_material_id,
                                   additional_metadata)
    /\ embedding' = [NoEmbedding EXCEPT
            !.pc = "returned",
            !.op = "add_documents",
            !.texts = TextsOf(n),
            !.calls = IF n = 0 THEN <<>>
                      ELSE generate_embeddings(TextsOf(n)).calls,
            !.args = [source_material_id |-> source_material_id,
                      notebook_id |-> notebook_id,
                      user_id |-> user_id,
                      additional_metadata |-> additional_metadata],
            !.ids = ChunkIds(source_material_id, n)]
    /\ UNCHANGED <<notebooks, materials, files, tasks, loop_owner, patches>>
    /\ UNCHANGED otherThanEmbedding

EmbeddingNext ==
    \/ \E n \in 0..MaxTexts : GenerateEmbeddings(n)
    \/ \E n \in ChunkCounts, source_material_id \in Docs,
          notebook_id \in Notebooks, user_id \in Users,
          additional_metadata \in ExtraMetadata :
            AddDocuments(n, source_material_id, notebook_id, user_id,
                         additional_metadata)

(***************************************************************************)
(* Properties of the embedding gateway and of the upsert.                  *)
(***************************************************************************)
\* C24: generate_embeddings returns one vector per text, the i-th vector
\* the embedding of the i-th text; every provider call gets between 1 and
\* 100 texts, the calls together get every text once, and there is no
\* call for an empty list.
C24_EmbeddingsInOrder ==
    embedding.op = "generate_embeddings" =>
        /\ Len(embedding.vectors) = Len(embedding.texts)
        /\ \A i \in DOMAIN embedding.texts :
                embedding.vectors[i] = Embed(embedding.texts[i])
        /\ \A k \in DOMAIN embedding.calls :
                embedding.calls[k] >= 1 /\ embedding.calls[k] <= 100
        /\ SumSeq(embedding.calls) = Len(embedding.texts)
        /\ embedding.texts = <<>> => embedding.calls = <<>>

\* C24 witness: 201 texts went to the provider in calls of 100, 100 and 1.
C24_Witness ==
    /\ embedding.op = "generate_embeddings"
    /\ Len(embedding.texts) = 2 * batch_size + 1
    /\ embedding.calls = <<batch_size, batch_size, 1>>
    /\ Len(embedding.vectors) = 2 * batch_size + 1

\* the entries stored under the ids of a source document
EntriesWithIdOf(idx, s) ==
    {e \in idx : e.id[1] = s}

\* C25: an upsert of n >= 1 chunks for source s stores n entries with the
\* ids s_chunk_0 .. s_chunk_(n-1), and whatever the extra metadata is,
\* entry i carries source_material_id = s, the notebook_id and user_id of
\* the call, chunk_index = i and total_chunks = n; an upsert of no chunks
\* returns the empty list and calls no embedding.
C25_UpsertMetadata ==
    embedding.op = "add_documents" =>
        LET n == Len(embedding.texts)
            a == embedding.args
            held == EntriesWithIdOf(index, a.source_material_id)
        IN  /\ Cardinality(held) = n
            /\ Ids(held) = {<<a.source_material_id, i>> : i \in 0..(n - 1)}
            /\ Len(embedding.ids) = n
            /\ \A e \in held :
                /\ e.metadata.source_material_id = a.source_material_id
                /\ e.metadata.notebook_id = a.notebook_id
                /\ e.metadata.user_id = a.user_id
                /\ e.metadata.chunk_index = e.id[2]
                /\ e.metadata.total_chunks = n
            /\ n = 0 => embedding.ids = <<>> /\ embedding.calls = <<>>

(***************************************************************************)
(* A second run of index_document for a document whose first run has not   *)
(* returned.                                                               *)
(***************************************************************************)
TwinsIdle ==
    twins = [d \in Docs |-> NoTask]

\* the second coroutine of document d on the event loop
TwinOwner(d) ==
    MaxDocs + d

\* index_document scheduled a second time with the same arguments while
\* the first run of the document has not returned
TwinSchedule(d) ==
    /\ tasks[d].pc \notin {"none", "done"}
    /\ twins[d].pc = "none"
    /\ twins' = [twins EXCEPT ![d] =
                    [NoTask EXCEPT !.pc = "scheduled",
                                   !.user_id = tasks[d].user_id]]
    /\ UNCHANGED <<pipelineVars, otherThanTwins>>

\* lines 36-51 in the second run
TwinBegin(d) ==
    /\ LoopFree
    /\ twins[d].pc = "scheduled"
    /\ \/ /\ materials[d].state # "live"
          /\ twins' = [twins EXCEPT ![d] = Finished(@, "false")]
       \/ /\ materials[d].state = "live"
          /\ materials[d].content_url = NoUrl
          /\ twins' = [twins EXCEPT ![d] = Finished(@, "false")]
       \/ /\ materials[d].state = "live"
          /\ materials[d].content_url # NoUrl
          /\ twins' = [twins EXCEPT ![d] =
                          [@ EXCEPT !.pc = "get",
                                    !.notebook_id = materials[d].notebook_id,
                                    !.content_url = materials[d].content_url]]
    /\ UNCHANGED <<pipelineVars, otherThanTwins>>

\* storage.get in the second run
TwinGet(d) ==
    /\ twins[d].pc = "get"
    /\ twins' = [twins EXCEPT ![d] =
                    [@ EXCEPT !.pc = files[twins[d].content_url].kind,
                              !.chunks = files[twins[d].content_url].n]]
    /\ UNCHANGED <<pipelineVars, otherThanTwins>>

\* the second run numbering its ids after the entries the source holds
TwinAddAfterHeld(idx, task, d) ==
    AddAfterHeld(idx, task.chunks, d, task.notebook_id, task.user_id,
                 task.content_url, [title |-> d, source_type |-> "upload"])

\* lines 78-88: vs.add_documents of the second run
TwinAdd(idx, task, d) ==
    add_documents(idx, task.chunks, d, task.notebook_id, task.user_id,
                  task.content_url, [title |-> d, source_type |-> "upload"])

\* lines 51-90 in the second run
TwinIndex(d) ==
    /\ LoopFree
    /\ \/ /\ twins[d].pc \in {"missing", "unreadable"}
          /\ twins' = [twins EXCEPT ![d] = OnException(@)]
          /\ UNCHANGED <<materials, index, loop_owner>>
       \/ /\ twins[d].pc = "blank"
          /\ materials' = CommitProcessed(d)
          /\ twins' = [twins EXCEPT ![d] = AfterCommit(d, @)]
          /\ UNCHANGED <<index, loop_owner>>
       \/ /\ twins[d].pc = "text"
          /\ \E failed \in 1..NumBatches(twins[d].chunks) :
                twins' = [twins EXCEPT ![d] =
                    OnException([@ EXCEPT !.embedded =
                        EmbeddedBefore(failed, twins[d].chunks)])]
          /\ UNCHANGED <<materials, index, loop_owner>>
       \/ /\ twins[d].pc = "text"
          /\ twins' = [twins EXCEPT ![d] = AfterAdd(@, FALSE)]
          /\ loop_owner' = IF twins'[d].pc = "done" THEN 0 ELSE TwinOwner(d)
          /\ UNCHANGED <<materials, index>>
       \/ /\ twins[d].pc = "text"
          /\ index' = TwinAdd(index, twins[d], d)
          /\ twins' = [twins EXCEPT ![d] = AfterAdd(@, TRUE)]
          /\ loop_owner' = TwinOwner(d)
          /\ UNCHANGED materials
    /\ UNCHANGED <<notebooks, files, tasks, patches>>
    /\ UNCHANGED otherThanTwins

\* lines 92-96 in the second run
TwinMark(d) ==
    /\ loop_owner = TwinOwner(d)
    /\ twins[d].pc = "mark"
    /\ materials' = CommitProcessed(d)
    /\ twins' = [twins EXCEPT ![d] = AfterCommit(d, @)]
    /\ loop_owner' = 0
    /\ UNCHANGED <<notebooks, files, index, tasks, patches>>
    /\ UNCHANGED otherThanTwins

TwinsNext ==
    \/ \E u \in Users : CreateNotebook(u)
    \/ \E n \in Notebooks, u \in Users, c \in Contents :
            UploadSourceMaterial(n, u, c)
    \/ \E d \in Docs : TaskBegin(d)
    \/ \E d \in Docs : TaskGet(d)
    \/ \E d \in Docs : TaskIndex(d)
    \/ \E d \in Docs : TaskMark(d)
    \/ \E d \in Docs : TwinSchedule(d)
    \/ \E d \in Docs : TwinBegin(d)
    \/ \E d \in Docs : TwinGet(d)
    \/ \E d \in Docs : TwinIndex(d)
    \/ \E d \in Docs : TwinMark(d)

\* both runs of document d have returned
BothReturned(d) ==
    /\ tasks[d].pc = "done"
    /\ twins[d].pc = "done"

\* the chunks the content of document d makes
ChunksOf(d) ==
    IF files[d].kind = "text" THEN files[d].n ELSE 0

\* C28 as stated: once both runs of a document with text have returned,
\* the index holds exactly one entry per chunk id, N entries for the
\* source id.
C28_TwinRunsLeaveAllChunks ==
    \A d \in Docs :
        (BothReturned(d) /\ files[d].kind = "text") =>
            LET held == EntriesOfSource(index, d) IN
            /\ Cardinality(held) = ChunksOf(d)
            /\ Ids(held) = {<<d, i>> : i \in 0..(ChunksOf(d) - 1)}

\* C28: once both runs of a document have returned, no chunk id is held
\* twice; if at least one run returned True the index holds exactly the N
\* chunk ids of the document and processed is true; if neither did, the
\* index holds no entry of the document.
C28_TwinRunsWhenUpserted ==
    \A d \in Docs :
        BothReturned(d) =>
            LET held == EntriesOfSource(index, d) IN
            /\ Cardinality(Ids(held)) = Cardinality(held)
            /\ IF tasks[d].result = "true" \/ twins[d].result = "true"
               THEN /\ Cardinality(held) = ChunksOf(d)
                    /\ Ids(held) = {<<d, i>> : i \in 0..(ChunksOf(d) - 1)}
                    /\ materials[d].processed
               ELSE held = {}

\* C28 witness: both runs of a document of more than one batch read the
\* file before either stored its chunks, both returned True, and the index
\* holds its N entries.
C28_Witness ==
    \E d \in Docs :
        /\ BothReturned(d)
        /\ tasks[d].result = "true" /\ twins[d].result = "true"
        /\ tasks[d].embedded = batch_size + 1
        /\ twins[d].embedded = batch_size + 1
        /\ Cardinality(EntriesOfSource(index, d)) = batch_size + 1
        /\ materials[d].processed

(***************************************************************************)
(* The specifications.                                                     *)
(***************************************************************************)
ChunkerIdle ==
    /\ chunk_size = 1
    /\ chunk_overlap = 0
    /\ space_tokens = 0
    /\ sentences = <<>>
    /\ si = 1
    /\ chunks = <<>>
    /\ current_chunk = <<>>
    /\ current_tokens = 0
    /\ cpc = "idle"

InitChunker ==
    ChunkerInit /\ PipelineInit /\ ServiceInit /\ ChatIdle /\ CardsInit
        /\ GenerationIdle /\ StreamIdle /\ EmbeddingIdle /\ TwinsIdle

SpecChunker ==
    InitChunker /\ [][ChunkerNext]_vars

Init ==
    PipelineInit /\ ChunkerIdle /\ ServiceInit /\ ChatIdle /\ CardsInit
        /\ GenerationIdle /\ StreamIdle /\ EmbeddingIdle /\ TwinsIdle

Spec ==
    Init /\ [][PipelineNext]_vars

InitService ==
    IndexedInit /\ ChunkerIdle /\ ServiceInit /\ ChatIdle /\ CardsInit
        /\ GenerationIdle /\ StreamIdle /\ EmbeddingIdle /\ TwinsIdle

SpecService ==
    InitService /\ [][ServiceNext]_vars

InitChat ==
    IndexedInit /\ ChunkerIdle /\ ServiceInit /\ ChatIdle /\ CardsInit
        /\ GenerationIdle /\ StreamIdle /\ EmbeddingIdle /\ TwinsIdle

SpecChat ==
    InitChat /\ [][ChatNext]_vars

InitReview ==
    IndexedInit /\ ChunkerIdle /\ ServiceInit /\ ChatIdle /\ CardsInit
        /\ GenerationIdle /\ StreamIdle /\ EmbeddingIdle /\ TwinsIdle

SpecReview ==
    InitReview /\ [][ReviewNext]_vars

SpecCards ==
    InitReview /\ [][CardsNext]_vars

InitGeneration ==
    PipelineInit /\ ChunkerIdle /\ ServiceInit /\ ChatIdle /\ CardsInit
        /\ GenerationIdle /\ StreamIdle /\ EmbeddingIdle /\ TwinsIdle

SpecGeneration ==
    InitGeneration /\ [][GenerationNext]_vars

InitStream ==
    IndexedInit /\ ChunkerIdle /\ ServiceInit /\ ChatIdle /\ CardsInit
        /\ GenerationIdle /\ StreamIdle /\ EmbeddingIdle /\ TwinsIdle

SpecStream ==
    InitStream /\ [][StreamNext]_vars

InitEmbedding ==
    PipelineInit /\ ChunkerIdle /\ ServiceInit /\ ChatIdle /\ CardsInit
        /\ GenerationIdle /\ StreamIdle /\ EmbeddingIdle /\ TwinsIdle

SpecEmbedding ==
    InitEmbedding /\ [][EmbeddingNext]_vars

InitTwins ==
    PipelineInit /\ ChunkerIdle /\ ServiceInit /\ ChatIdle /\ CardsInit
        /\ GenerationIdle /\ StreamIdle /\ EmbeddingIdle /\ TwinsIdle

SpecTwins ==
    InitTwins /\ [][TwinsNext]_vars

====
